---- MODULE Spec2Model ----
(***************************************************************************)
(* Model of the low-poly table generator (assets/blender_ai/table.py and   *)
(* blender_utils.py): the Blender scene as state, create_low_poly_table    *)
(* and validate_table as operations.                                       *)
(*                                                                         *)
(* Numbers.  Python floats are modelled in fixed point:                    *)
(*   lengths                 micrometres        (1 m   = ONE)              *)
(*   ratios, tapers, scales  millionths         (1.0   = ONE)              *)
(*   angles in degrees       microdegrees       (1 deg = ONE)              *)
(*   angles in radians       microradians       (1 rad = ONE)              *)
(*   top_warp                units of 1e-10 m   (1 um  = WarpPerLen)       *)
(* Products and quotients are rounded to the nearest unit, as a float      *)
(* operation rounds to the nearest representable value.                    *)
(***************************************************************************)
EXTENDS Integers, Sequences, FiniteSets, TLC

VARIABLES
    objects,      \* bpy.data.objects: object id -> object
    meshes,       \* bpy.data.meshes: mesh id -> vertices
    collections,  \* bpy.data.collections, by name
    calls,        \* create_low_poly_table calls made
    ret,          \* what the last call returned or raised, and its arguments
    val,          \* the last validate_table call and the list it returned
    history,      \* the outcome of every call so far, "ok" or "error"
    run,          \* one run of the script's main: position, arguments, output
    cli,          \* one run of haemwend.main.main: position, runner, events
    unit          \* one call of a helper function: its arguments and result

vars == <<objects, meshes, collections, calls, ret, val, history, run, cli, unit>>

\* ------------------------------------------------------------------ bounds

\* create_low_poly_table calls in one run of the model.
MaxCalls == 2

\* How many legs of the returned list a caller of validate_table may drop.
MaxDropLegs == 1

\* How many calls of launch and shutdown are made on one runner.
MaxRunnerCalls == 3

\* ------------------------------------------------------------ fixed point

ONE == 1000 * 1000

\* top_warp units (1e-10 m) per length unit (1e-6 m).
WarpPerLen == 10 * 1000

Milli(n) == n * 1000

Abs(x) == IF x < 0 THEN -x ELSE x

Sign(x) == IF x < 0 THEN -1 ELSE 1

Max(a, b) == IF a >= b THEN a ELSE b

Min(a, b) == IF a <= b THEN a ELSE b

\* The largest value of the arithmetic: 2^31 - 1.
MaxInt == 2 * (1024 * 1024 * 1024 - 1) + 1

\* (Helpers take computed values as arguments, so each is computed once.)

MulDivCarry(q, t, c, r) == <<q * r + (t \div c), t % c>>

MulDivStep(h, a, digit, c, r) == MulDivCarry(h[1], h[2] * r + a * digit, c, r)

\* <<(a*b) \div c, (a*b) % c>> for 0 <= a < c and b >= 0, taking b digit by
\* digit in radix r, where 2*c*r <= MaxInt: no intermediate value leaves the
\* 32-bit range.
RECURSIVE MulDivDigits(_, _, _, _)
MulDivDigits(a, b, c, r) ==
    IF b = 0 THEN <<0, 0>>
    ELSE MulDivStep(MulDivDigits(a, b \div r, c, r), a, b % r, c, r)

AddQuotient(h, q) == <<q + h[1], h[2]>>

\* <<(a*b) \div c, (a*b) % c>> for a, b >= 0 and c > 0.
MulDivQR(a, b, c) ==
    IF a = 0 \/ b = 0 THEN <<0, 0>>
    ELSE IF a <= MaxInt \div b THEN <<(a * b) \div c, (a * b) % c>>
    ELSE AddQuotient(MulDivDigits(a % c, b, c, (MaxInt \div c) \div 2),
                     (a \div c) * b)

RoundQR(qr, c) == qr[1] + (IF 2 * qr[2] >= c THEN 1 ELSE 0)

\* a*b/c rounded to the nearest integer (half away from zero), signs kept.
MulDiv(a, b, c) ==
    Sign(a) * Sign(b) * Sign(c)
        * RoundQR(MulDivQR(Max(Abs(a), Abs(b)), Min(Abs(a), Abs(b)), Abs(c)),
                  Abs(c))

\* Float product and quotient of two fixed-point numbers.
Mul(a, b) == MulDiv(a, b, ONE)

Div(a, b) == MulDiv(a, ONE, b)

\* x * 0.5 as the code writes it.
Half(x) == MulDiv(x, 1, 2)

\* math.radians: microdegrees to microradians, deg * pi / 180 with
\* pi = 355/113 = 3.1415929...
radians(deg) == MulDiv(deg, 355, 113 * 180)

CosTerms(x2, x4) ==
    ONE - MulDiv(x2, 1, 2) + MulDiv(x4, 1, 24) - MulDiv(Mul(x4, x2), 1, 720)
        + MulDiv(Mul(x4, x4), 1, 40320)

CosSeries(x2) == CosTerms(x2, Mul(x2, x2))

\* math.cos, by its Taylor series to x^8 (|x| <= 0.35 rad: error < 1e-9).
CosOf(x) == CosSeries(Mul(x, x))

SinTerms(x, x2, x3) ==
    x - MulDiv(x3, 1, 6) + MulDiv(Mul(x3, x2), 1, 120)
      - MulDiv(Mul(Mul(x3, x2), x2), 1, 5040)

SinSeries(x, x2) == SinTerms(x, x2, Mul(x2, x))

\* math.sin, by its Taylor series to x^7.
SinOf(x) == SinSeries(x, Mul(x, x))

\* math.copysign(a, s); a zero s comes as its sign, see SignedFloat.
copysign(a, s) == IF s < 0 THEN -Abs(a) ELSE Abs(a)

RoundHalfEven(q, r) ==
    IF r < 50 THEN q
    ELSE IF r > 50 THEN q + 1
    ELSE IF q % 2 = 0 THEN q ELSE q + 1

\* round(x, 4): to the nearest 1e-4, halves to even.
round4(x) == Sign(x) * RoundHalfEven(Abs(x) \div 100, Abs(x) % 100) * 100

\* top_warp (1e-10 m) as a length (1e-6 m).
WarpToLen(w) == MulDiv(w, 1, WarpPerLen)

\* A function built by a constructor, with every value computed once.
Eager(f) == f @@ <<>>

SeqMax(s) == CHOOSE m \in {s[i] : i \in DOMAIN s} : \A i \in DOMAIN s : s[i] <= m

SeqMin(s) == CHOOSE m \in {s[i] : i \in DOMAIN s} : \A i \in DOMAIN s : s[i] >= m

\* ------------------------------------------------------------- parameters

\* The script's defaults (parse_args), which are the spec's Scenario A.
ScenarioA ==
    [top_width |-> Milli(1200), top_depth |-> Milli(1200),
     top_thickness |-> Milli(80), table_height |-> Milli(750),
     leg_thickness |-> Milli(100), inset |-> Milli(80),
     top_taper |-> Milli(900), leg_taper |-> Milli(820),
     leg_splay_deg |-> 5 * ONE, top_warp |-> 80 * ONE, bevel |-> FALSE]

\* Scenario B: A without splay, taper and warp.
ScenarioB ==
    [ScenarioA EXCEPT !.leg_splay_deg = 0, !.top_taper = ONE,
                      !.leg_taper = ONE, !.top_warp = 0]

\* Scenario C: a 0.5 x 0.5 top on 0.3 legs.
ScenarioC ==
    [ScenarioA EXCEPT !.top_width = Milli(500), !.top_depth = Milli(500),
                      !.leg_thickness = Milli(300)]

Scenarios == {ScenarioA, ScenarioB, ScenarioC}

Fields == DOMAIN ScenarioA

\* The values each argument is also tried with: both sides of every
\* threshold the code tests, and a few ordinary values.
Alternatives ==
    [top_width     |-> {Milli(1000)},
     top_depth     |-> {Milli(800)},
     top_thickness |-> {0, Milli(20), Milli(750)},
     table_height  |-> {Milli(50), Milli(80), Milli(1000)},
     leg_thickness |-> {-Milli(100), 0, Milli(300), Milli(1200)},
     inset         |-> {-1, 0, Milli(100), Milli(100) + 1, Milli(550),
                        Milli(550) + 1},
     top_taper     |-> {Milli(600) - 1, Milli(600), Milli(960), ONE, ONE + 1},
     leg_taper     |-> {Milli(600) - 1, Milli(600), Milli(910), ONE, ONE + 1},
     leg_splay_deg |-> {-1, 0, 1, ONE, 3 * ONE - 1, 3 * ONE, 20 * ONE,
                        20 * ONE + 1},
     top_warp      |-> {0, 5, 11, -80 * ONE, 360 * ONE, 360 * ONE + 1,
                        -360 * ONE, -360 * ONE - 1},
     bevel         |-> {TRUE}]

\* Every scenario, and every scenario with one argument changed.
OneChanged(b) ==
    UNION {{[b EXCEPT ![f] = v] : v \in Alternatives[f]} : f \in Fields}

ParamSpace == Scenarios \cup UNION {OneChanged(b) : b \in Scenarios}

\* Every angle the program takes a sine or cosine of: a splay angle of the
\* parameters, with either sign, or zero.
SplayAngles ==
    {0} \cup UNION {{radians(d), -radians(d), radians(-d), -radians(-d)} :
                    d \in {p.leg_splay_deg : p \in ParamSpace}}

\* The two series, summed once per angle.
CosTable == Eager([x \in SplayAngles |-> CosOf(x)])

SinTable == Eager([x \in SplayAngles |-> SinOf(x)])

cos(x) == IF x \in DOMAIN CosTable THEN CosTable[x] ELSE CosOf(x)

sin(x) == IF x \in DOMAIN SinTable THEN SinTable[x] ELSE SinOf(x)

\* ------------------------------------------------------------------ scene

COLLECTION_NAME == "LLM_Table"

SceneCollection == "Scene"

None == <<>>

Zero3 == <<0, 0, 0>>

One3 == <<ONE, ONE, ONE>>

\* The eight corners of a box from lo to hi, in Blender's cube order.
Corners(lo, hi) ==
    << <<lo[1], lo[2], lo[3]>>, <<lo[1], lo[2], hi[3]>>,
       <<lo[1], hi[2], lo[3]>>, <<lo[1], hi[2], hi[3]>>,
       <<hi[1], lo[2], lo[3]>>, <<hi[1], lo[2], hi[3]>>,
       <<hi[1], hi[2], lo[3]>>, <<hi[1], hi[2], hi[3]>> >>

\* primitive_cube_add(size): vertices at +-size/2.
CubeVerts(size) ==
    LET h == Half(size) IN Corners(<<-h, -h, -h>>, <<h, h, h>>)

Coord(verts, k) == Eager([i \in DOMAIN verts |-> verts[i][k]])

\* The object table, the mesh datablocks and the collections.
Scene(o, m, c) == [objects |-> o, meshes |-> m, collections |-> c]

NewObject(name, coll, data, location, dims) ==
    [name |-> name, coll |-> coll, data |-> data, parent |-> None,
     pinv |-> Zero3, location |-> location, rotation_euler |-> Zero3,
     scale |-> dims, bevel |-> FALSE]

\* Blender's startup cube: 2 x 2 x 2, eight vertices.
StartupCube(location) ==
    NewObject("Cube", SceneCollection, <<0, 0>>, location, One3)

Put(f, k, v) == (k :> v) @@ f

Drop(f, ks) == Eager([x \in DOMAIN f \ ks |-> f[x]])

\* Mesh datablocks no object uses are not part of the scene.
Purge(sc) ==
    [sc EXCEPT !.meshes =
        Drop(sc.meshes,
             {m \in DOMAIN sc.meshes :
                 \A i \in DOMAIN sc.objects : sc.objects[i].data # m})]

\* bpy.data.objects.remove(obj, do_unlink=True): the object goes, its
\* children lose their parent.
RemoveObjects(sc, ids) ==
    Purge([sc EXCEPT !.objects =
        Eager([i \in DOMAIN sc.objects \ ids |->
            IF sc.objects[i].parent \in ids
            THEN [sc.objects[i] EXCEPT !.parent = None, !.pinv = Zero3]
            ELSE sc.objects[i]])])

get_or_create_collection(sc, name) ==
    [sc EXCEPT !.collections = sc.collections \cup {name}]

\* clear_collection without the loop over collection.objects.
clear_collection_keeps(sc, collection) == sc

clear_collection(sc, collection) ==
    RemoveObjects(sc, {i \in DOMAIN sc.objects :
                          sc.objects[i].coll = collection})

create_cube(sc, id, name, location, dimensions, collection) ==
    [sc EXCEPT
        !.objects = Put(sc.objects, id,
                        NewObject(name, collection, id, location, dimensions)),
        !.meshes = Put(sc.meshes, id, CubeVerts(ONE))]

\* transform_apply(scale=True): the scale goes into the vertices.
ApplyScaleVerts(verts, scale) ==
    Eager([i \in DOMAIN verts |->
        <<Mul(verts[i][1], scale[1]), Mul(verts[i][2], scale[2]),
          Mul(verts[i][3], scale[3])>>])

apply_scale(sc, id) ==
    [sc EXCEPT
        !.meshes[sc.objects[id].data] =
            ApplyScaleVerts(sc.meshes[sc.objects[id].data],
                            sc.objects[id].scale),
        !.objects[id].scale = One3]

\* The guard of the span, 1e-8 in the code: below the resolution of a
\* length, so the smallest positive length stands for it.
SpanGuard == Max(ONE \div (100 * ONE), 1)

ScaleXY(v, s) == <<Mul(v[1], s), Mul(v[2], s), v[3]>>

\* t measured down from z_max: the scales of the two ends exchanged.
TaperVertexFromTop(v, z_min, span, bottom_scale, top_scale) ==
    ScaleXY(v, top_scale
               + Mul(bottom_scale - top_scale, Div(v[3] - z_min, span)))

\* Lines 77-80, for one vertex.
TaperVertex(v, z_min, span, bottom_scale, top_scale) ==
    ScaleXY(v, bottom_scale
               + Mul(top_scale - bottom_scale, Div(v[3] - z_min, span)))

TaperBetween(verts, z_min, z_max, bottom_scale, top_scale) ==
    Eager([i \in DOMAIN verts |->
              TaperVertex(verts[i], z_min, Max(z_max - z_min, SpanGuard),
                          bottom_scale, top_scale)])

taper_verts(verts, bottom_scale, top_scale) ==
    TaperBetween(verts, SeqMin(Coord(verts, 3)), SeqMax(Coord(verts, 3)),
                 bottom_scale, top_scale)

taper_mesh_z(sc, id, bottom_scale, top_scale) ==
    [sc EXCEPT !.meshes[sc.objects[id].data] =
        taper_verts(sc.meshes[sc.objects[id].data], bottom_scale, top_scale)]

\* abs(strength) <= 1e-9, strength in units of 1e-10.
WarpIsNoOp(strength) == Abs(strength) <= 10

\* 1.0 if (x * y) > 0 else -1.0
WarpSignStrict(v) ==
    IF v[1] # 0 /\ v[2] # 0 /\ (v[1] < 0) = (v[2] < 0) THEN 1 ELSE -1

\* 1.0 if (x * y) >= 0 else -1.0
WarpSign(v) ==
    IF v[1] # 0 /\ v[2] # 0 /\ (v[1] < 0) # (v[2] < 0) THEN -1 ELSE 1

\* Lines 91-95.
WarpTop(verts, z_max, strength) ==
    Eager([i \in DOMAIN verts |->
              IF Abs(verts[i][3] - z_max) <= 1
              THEN <<verts[i][1], verts[i][2],
                     verts[i][3] + WarpSign(verts[i]) * WarpToLen(strength)>>
              ELSE verts[i]])

warp_verts(verts, strength) ==
    IF WarpIsNoOp(strength) THEN verts
    ELSE WarpTop(verts, SeqMax(Coord(verts, 3)), strength)

warp_top_surface(sc, id, strength) ==
    [sc EXCEPT !.meshes[sc.objects[id].data] =
        warp_verts(sc.meshes[sc.objects[id].data], strength)]

leg_splay_rotation(x, y, splay_deg) ==
    LET angle == radians(splay_deg)
    IN  <<copysign(angle, y), copysign(angle, x), 0>>

\* matrix_world.translation: through the parent and the parent inverse
\* (no parent in this program is rotated or scaled).
RECURSIVE WorldLocation(_, _)
WorldLocation(objs, id) ==
    LET o == objs[id]
    IN  IF o.parent = None \/ o.parent \notin DOMAIN objs THEN o.location
        ELSE LET pw == WorldLocation(objs, o.parent)
             IN  <<pw[1] + o.pinv[1] + o.location[1],
                   pw[2] + o.pinv[2] + o.location[2],
                   pw[3] + o.pinv[3] + o.location[3]>>

\* parent_set(type="OBJECT", keep_transform=True): the parent inverse takes
\* up the parent's world transform, the child's own location stays.
\* parent_set with keep_transform=False: no parent inverse is stored.
parent_without_inverse(sc, child, parent) ==
    [sc EXCEPT !.objects[child].parent = parent]

parent_keep_world(sc, child, parent) ==
    LET pw == WorldLocation(sc.objects, parent)
    IN  [sc EXCEPT !.objects[child].parent = parent,
                   !.objects[child].pinv = <<-pw[1], -pw[2], -pw[3]>>]

\* ---------------------------------------------------------------- builder

\* location.length > 1e-6, without squaring a large coordinate.
LengthOverMicron(v) ==
    \/ \E k \in 1..3 : Abs(v[k]) > 1
    \/ v[1] * v[1] + v[2] * v[2] + v[3] * v[3] > 1

\* max - min of each coordinate of the vertices.
mesh_dims_local(verts) ==
    Eager([k \in 1..3 |-> SeqMax(Coord(verts, k)) - SeqMin(Coord(verts, k))])

\* obj.dimensions: the local extents times the scale.
Dimensions(sc, id) ==
    LET d == mesh_dims_local(sc.meshes[sc.objects[id].data])
    IN  Eager([k \in 1..3 |-> Mul(d[k], sc.objects[id].scale[k])])

IsStartupCube(sc, id) ==
    /\ sc.objects[id].name = "Cube"
    /\ Len(sc.meshes[sc.objects[id].data]) = 8
    /\ ~LengthOverMicron(sc.objects[id].location)
    /\ \A k \in 1..3 : Abs(Dimensions(sc, id)[k] - 2 * ONE) < 10

remove_startup_cube(sc) ==
    RemoveObjects(sc, {i \in DOMAIN sc.objects : IsStartupCube(sc, i)})

\* 0.45 in top_warp units per length unit.
WarpLimitPerLen == (45 * WarpPerLen) \div 100

\* The warp check written with >= instead of >.
WarpAtLeastLimit(top_warp, top_thickness) ==
    Abs(top_warp) >= top_thickness * WarpLimitPerLen

\* abs(top_warp) > top_thickness * 0.45, compared without overflow.
WarpTooLarge(top_warp, top_thickness) ==
    \/ Abs(top_warp) \div WarpLimitPerLen > top_thickness
    \/ /\ Abs(top_warp) \div WarpLimitPerLen = top_thickness
       /\ Abs(top_warp) % WarpLimitPerLen > 0

\* max_inset with the whole leg thickness taken off on both sides.
MaxInsetWholeLegs(p) ==
    Half(Min(p.top_width, p.top_depth) - 2 * p.leg_thickness)

MaxInset(p) == Half(Min(p.top_width, p.top_depth) - p.leg_thickness)

\* The inset check written with >= instead of >.
InsetAtLeastMax(p) == p.inset >= MaxInset(p)

InsetTooLarge(p) == p.inset > MaxInset(p)

\* The error the first six checks raise, "" when they pass.
RangeError(p) ==
    IF p.table_height <= p.top_thickness
    THEN "table_height must be greater than top_thickness"
    ELSE IF p.inset < 0 THEN "inset must be >= 0"
    ELSE IF ~(Milli(600) <= p.top_taper /\ p.top_taper <= ONE)
    THEN "top_taper must be in range [0.6, 1.0]"
    ELSE IF ~(Milli(600) <= p.leg_taper /\ p.leg_taper <= ONE)
    THEN "leg_taper must be in range [0.6, 1.0]"
    ELSE IF ~(0 <= p.leg_splay_deg /\ p.leg_splay_deg <= 20 * ONE)
    THEN "leg_splay_deg must be in range [0.0, 20.0]"
    ELSE IF WarpTooLarge(p.top_warp, p.top_thickness)
    THEN "top_warp is too large for the given top_thickness"
    ELSE ""

\* The error the two checks on max_inset raise, "" when they pass.
InsetError(p) ==
    IF MaxInset(p) <= 0
    THEN "top_width/top_depth must be greater than leg_thickness"
    ELSE IF InsetTooLarge(p)
    THEN "inset is too large for given dimensions"
    ELSE ""

\* Lines 179-200: the first check that fails decides the error.
CheckParams(p) == IF RangeError(p) # "" THEN RangeError(p) ELSE InsetError(p)

\* CheckParams, computed once for each parameter set.
ParamErrors == Eager([p \in ParamSpace |-> CheckParams(p)])

ParamError(p) == ParamErrors[p]

LegHeight(p) == p.table_height - p.top_thickness

\* max(cos(splay)^2, 1e-5)
ProjectedFactor(p) ==
    LET c == cos(radians(p.leg_splay_deg)) IN Max(Mul(c, c), 10)

\* The leg mesh without the compensation for the splay.
LegMeshHeightUncompensated(p) == LegHeight(p)

\* The leg mesh with the projection factor multiplied in, not divided out.
LegMeshHeightShortened(p) == Mul(LegHeight(p), ProjectedFactor(p))

LegMeshHeight(p) == Div(LegHeight(p), ProjectedFactor(p))

\* offset_x with the whole leg thickness instead of half of it.
OffsetXWholeLeg(p) == Half(p.top_width) - p.inset - p.leg_thickness

OffsetX(p) == Half(p.top_width) - p.inset - Half(p.leg_thickness)

OffsetY(p) == Half(p.top_depth) - p.inset - Half(p.leg_thickness)

\* The signs lines 237-240 write in front of the offsets of leg i.
SignX(i) == <<1, 1, -1, -1>>[i]

SignY(i) == <<1, -1, 1, -1>>[i]

LegPositions(p) ==
    LET leg_z == Half(LegHeight(p))
    IN  << <<OffsetX(p), OffsetY(p), leg_z>>, <<OffsetX(p), -OffsetY(p), leg_z>>,
           <<-OffsetX(p), OffsetY(p), leg_z>>,
           <<-OffsetX(p), -OffsetY(p), leg_z>> >>

\* What copysign reads of the float v: its sign, and for a zero the sign it
\* was written with (-offset is -0.0 when offset is 0.0).
SignedFloat(v, written) == IF v = 0 THEN written ELSE v

LegName(i) == <<"TableLeg.001", "TableLeg.002", "TableLeg.003", "TableLeg.004">>[i]

compute_style_metrics(p) ==
    LET reference_size == Min(p.top_width, p.top_depth)
        count == (IF p.leg_splay_deg >= 3 * ONE THEN 1 ELSE 0)
                 + (IF p.top_taper <= Milli(950) THEN 1 ELSE 0)
                 + (IF p.leg_taper <= Milli(900) THEN 1 ELSE 0)
                 + (IF Abs(p.top_warp) > 0 THEN 1 ELSE 0)
    IN  [top_width |-> round4(p.top_width),
         top_depth |-> round4(p.top_depth),
         top_aspect_ratio |->
             round4(Div(p.top_width, Max(p.top_depth, SpanGuard))),
         leg_thickness_ratio |-> round4(Div(p.leg_thickness, reference_size)),
         inset_ratio |-> round4(Div(p.inset, reference_size)),
         non_boxy_feature_count |-> count,
         non_boxy_score |-> round4(MulDiv(count, ONE, 4))]

TopId(gen) == <<gen, 0>>

LegId(gen, i) == <<gen, i>>

TemplateId(gen) == <<gen, 5>>

\* The pass without leg.data = template_leg.data.copy(): the copied object
\* keeps the template's mesh.
AddLegSharingData(sc, gen, i, p) ==
    LET pos  == LegPositions(p)[i]
        tmpl == sc.objects[TemplateId(gen)]
        leg  == [tmpl EXCEPT
                    !.name = LegName(i),
                    !.coll = COLLECTION_NAME,
                    !.location = pos,
                    !.rotation_euler =
                        leg_splay_rotation(SignedFloat(pos[1], SignX(i)),
                                           SignedFloat(pos[2], SignY(i)),
                                           p.leg_splay_deg),
                    !.bevel = p.bevel]
        sc1  == [sc EXCEPT !.objects = Put(sc.objects, LegId(gen, i), leg)]
    IN  parent_keep_world(sc1, LegId(gen, i), TopId(gen))

\* One pass of the loop over leg_positions.
AddLeg(sc, gen, i, p) ==
    LET pos  == LegPositions(p)[i]
        tmpl == sc.objects[TemplateId(gen)]
        leg  == [tmpl EXCEPT
                    !.data = LegId(gen, i),
                    !.name = LegName(i),
                    !.coll = COLLECTION_NAME,
                    !.location = pos,
                    !.rotation_euler =
                        leg_splay_rotation(SignedFloat(pos[1], SignX(i)),
                                           SignedFloat(pos[2], SignY(i)),
                                           p.leg_splay_deg),
                    !.bevel = p.bevel]
        sc1  == [sc EXCEPT
                    !.objects = Put(sc.objects, LegId(gen, i), leg),
                    !.meshes = Put(sc.meshes, LegId(gen, i),
                                   sc.meshes[tmpl.data])]
    IN  parent_keep_world(sc1, LegId(gen, i), TopId(gen))

RECURSIVE AddLegs(_, _, _, _)
AddLegs(sc, gen, n, p) ==
    IF n = 0 THEN sc ELSE AddLeg(AddLegs(sc, gen, n - 1, p), gen, n, p)

\* Lines 202 and 208-209: the startup cube goes, the collection exists and
\* is empty.
PrepareScene(sc) ==
    clear_collection(
        get_or_create_collection(remove_startup_cube(sc), COLLECTION_NAME),
        COLLECTION_NAME)

\* Lines 211-270: the tabletop, the template leg and the four legs, added to
\* the scene s1.
BuildObjects(s1, gen, p) ==
    LET leg_height == LegHeight(p)
        leg_mesh_height == LegMeshHeight(p)
        top_z == p.table_height - Half(p.top_thickness)
        s2 == create_cube(s1, TopId(gen), "TableTop", <<0, 0, top_z>>,
                          <<p.top_width, p.top_depth, p.top_thickness>>,
                          COLLECTION_NAME)
        s3 == warp_top_surface(
                  taper_mesh_z(apply_scale(s2, TopId(gen)), TopId(gen),
                               p.top_taper, ONE),
                  TopId(gen), p.top_warp)
        s4 == create_cube(s3, TemplateId(gen), "TableLeg_Template",
                          <<0, 0, Half(leg_height)>>,
                          <<p.leg_thickness, p.leg_thickness, leg_mesh_height>>,
                          COLLECTION_NAME)
        s5 == taper_mesh_z(apply_scale(s4, TemplateId(gen)), TemplateId(gen),
                           ONE, p.leg_taper)
        s6 == AddLegs(s5, gen, 4, p)
        s7 == RemoveObjects(s6, {TemplateId(gen)})
    IN  [s7 EXCEPT !.objects[TopId(gen)].bevel = p.bevel]

EmptyScene == Scene(<<>>, <<>>, {COLLECTION_NAME})

Accepted(p) == ParamError(p) = ""

\* What a build adds depends on its parameters and on nothing in the scene:
\* it is computed once for each call number and accepted parameter set.
Assembly ==
    Eager([k \in (1..MaxCalls) \X {p \in ParamSpace : Accepted(p)} |->
              BuildObjects(EmptyScene, k[1], k[2])])

AddAssembly(s1, a) ==
    Scene(a.objects @@ s1.objects, a.meshes @@ s1.meshes, s1.collections)

\* Lines 202-270: the scene after a build whose parameters passed.
BuildTable(sc, gen, p) == AddAssembly(PrepareScene(sc), Assembly[<<gen, p>>])

NoMetrics == compute_style_metrics(ScenarioA)

NoRet ==
    [status |-> "none", error |-> "", params |-> ScenarioA,
     table_top |-> None, legs |-> <<>>, leg_height |-> 0,
     leg_mesh_height |-> 0, style_metrics |-> NoMetrics]

Raised(err, p) == [NoRet EXCEPT !.status = "error", !.error = err, !.params = p]

ReturnedMetrics(gen, p, leg_mesh_height, style_metrics) ==
    [status |-> "ok", error |-> "", params |-> p, table_top |-> TopId(gen),
     legs |-> Eager([i \in 1..4 |-> LegId(gen, i)]),
     leg_height |-> LegHeight(p), leg_mesh_height |-> leg_mesh_height,
     style_metrics |-> style_metrics]

\* Line 282, computed once for each call number and accepted parameter set.
Returns ==
    Eager([k \in (1..MaxCalls) \X {p \in ParamSpace : Accepted(p)} |->
              ReturnedMetrics(k[1], k[2], LegMeshHeight(k[2]),
                              compute_style_metrics(k[2]))])

Returned(gen, p) == Returns[<<gen, p>>]

\* create_low_poly_table with the scene prepared before the checks.
create_after_clearing(sc, gen, p) ==
    IF ParamError(p) # "" THEN [scene |-> PrepareScene(sc),
                                ret |-> Raised(ParamError(p), p)]
    ELSE [scene |-> BuildTable(sc, gen, p), ret |-> Returned(gen, p)]

\* The scene and the outcome of one call: the checks first, in the code's
\* order, and only then the scene.
create_low_poly_table(sc, gen, p) ==
    IF ParamError(p) # ""
    THEN [scene |-> sc, ret |-> Raised(ParamError(p), p)]
    ELSE [scene |-> BuildTable(sc, gen, p), ret |-> Returned(gen, p)]

\* -------------------------------------------------------------- validator

\* Line 337.
eps == 1000

\* close(a, b, tol): abs(a - b) <= tol
close(a, b, tol) == Abs(a - b) <= tol

\* One entry of the issue list: which check, and for which leg ("" for the
\* checks that are not about one leg).
Issue(check, name) == <<check, name>>

\* issues.append(issue) when the check is violated.
AppendIf(violated, issue) == IF violated THEN <<issue>> ELSE <<>>

\* obj.bound_box: the corners of the box around the local vertices.
bound_box(verts) ==
    Corners(<<SeqMin(Coord(verts, 1)), SeqMin(Coord(verts, 2)),
              SeqMin(Coord(verts, 3))>>,
            <<SeqMax(Coord(verts, 1)), SeqMax(Coord(verts, 2)),
              SeqMax(Coord(verts, 3))>>)

\* The third row of the matrix of an XYZ Euler rotation (rotation about Z
\* is zero everywhere in this program): what gives a point's world z.
RotationRowZFrom(sx, cx, sy, cy) == <<-sy, Mul(sx, cy), Mul(cx, cy)>>

RotationRowZ(rot) ==
    RotationRowZFrom(sin(rot[1]), cos(rot[1]), sin(rot[2]), cos(rot[2]))

\* The third column of the same matrix: where the rotation takes the
\* object's local +Z axis.
RotationColumnZ(rot) ==
    <<Mul(sin(rot[2]), cos(rot[1])), -sin(rot[1]),
      Mul(cos(rot[1]), cos(rot[2]))>>

WorldZ(row, corner, world_z) ==
    world_z + Mul(row[1], corner[1]) + Mul(row[2], corner[2])
            + Mul(row[3], corner[3])

WorldZs(corners, row, world_z) ==
    Eager([i \in DOMAIN corners |-> WorldZ(row, corners[i], world_z)])

MinMax(zs) == <<SeqMin(zs), SeqMax(zs)>>

\* Lines 107-110, from the mesh, the rotation and the world position.
BBoxZExtents(verts, rot, world_z) ==
    MinMax(WorldZs(bound_box(verts), RotationRowZ(rot), world_z))

\* What the extents depend on: the mesh, the rotation and the world z.
Placement(sc, id) ==
    <<sc.meshes[sc.objects[id].data], sc.objects[id].rotation_euler,
      WorldLocation(sc.objects, id)[3]>>

\* The extents of every object a build can leave in the scene, computed
\* once per placement.
Placements ==
    UNION {{Placement(Assembly[k], id) : id \in DOMAIN Assembly[k].objects} :
           k \in DOMAIN Assembly}

Extents == Eager([k \in Placements |-> BBoxZExtents(k[1], k[2], k[3])])

bbox_world_z_extents(sc, id) == Extents[Placement(sc, id)]

\* The tolerance without the allowance for the splayed corners.
FixedTouchTolerance(p) == Milli(5)

\* Lines 373-376.
z_touch_tolerance(p) ==
    Max(Milli(5),
        Mul(Mul(p.leg_thickness, sin(radians(Abs(p.leg_splay_deg)))),
            Milli(1200)))

\* Lines 347-362: the checks on the tabletop.
TopIssuesOf(dims, location, p) ==
    AppendIf(~close(dims[1], p.top_width, eps)
                \/ ~close(dims[2], p.top_depth, eps),
             Issue("TableTop local XY mismatch", ""))
    \o AppendIf(~close(dims[3],
                       p.top_thickness + WarpToLen(Max(0, p.top_warp)), eps),
                Issue("TableTop local Z mismatch", ""))
    \o AppendIf(~close(location[3], p.table_height - Half(p.top_thickness),
                       eps),
                Issue("TableTop z mismatch", ""))

TopIssues(sc, table_top, p) ==
    TopIssuesOf(mesh_dims_local(sc.meshes[sc.objects[table_top].data]),
                sc.objects[table_top].location, p)

\* The leg's height checked against the height the parameters give, not
\* against the argument.
LegIssuesOfDerived(name, dim, z, parent, table_top, p, leg_mesh_height, tol) ==
    AppendIf(~close(dim[1], p.leg_thickness, eps)
                \/ ~close(dim[2], p.leg_thickness, eps),
             Issue("local XY mismatch", name))
    \o AppendIf(~close(dim[3], LegMeshHeight(p), eps),
                Issue("local Z mismatch", name))
    \o AppendIf(~close(z[1], 0, tol), Issue("does not touch ground", name))
    \o AppendIf(~close(z[2], p.table_height - p.top_thickness, tol),
                Issue("does not touch tabletop underside", name))
    \o AppendIf(parent # table_top, Issue("is not parented to TableTop", name))

\* Lines 379-397: the checks on one leg.
LegIssuesOf(name, dim, z, parent, table_top, p, leg_mesh_height, tol) ==
    AppendIf(~close(dim[1], p.leg_thickness, eps)
                \/ ~close(dim[2], p.leg_thickness, eps),
             Issue("local XY mismatch", name))
    \o AppendIf(~close(dim[3], leg_mesh_height, eps),
                Issue("local Z mismatch", name))
    \o AppendIf(~close(z[1], 0, tol), Issue("does not touch ground", name))
    \o AppendIf(~close(z[2], p.table_height - p.top_thickness, tol),
                Issue("does not touch tabletop underside", name))
    \o AppendIf(parent # table_top, Issue("is not parented to TableTop", name))

LegIssues(sc, leg, table_top, p, leg_mesh_height, tol) ==
    LegIssuesOf(sc.objects[leg].name,
                mesh_dims_local(sc.meshes[sc.objects[leg].data]),
                bbox_world_z_extents(sc, leg), sc.objects[leg].parent,
                table_top, p, leg_mesh_height, tol)

\* The loop of lines 378-400 over the first n legs of the list.
RECURSIVE LegsIssues(_, _, _, _, _, _, _)
LegsIssues(sc, legs, n, table_top, p, leg_mesh_height, tol) ==
    IF n = 0 THEN <<>>
    ELSE LegsIssues(sc, legs, n - 1, table_top, p, leg_mesh_height, tol)
         \o LegIssues(sc, legs[n], table_top, p, leg_mesh_height, tol)

RoundedXY(v) == <<round4(v[1]), round4(v[2])>>

\* Lines 377 and 399-400.
ActualXY(sc, legs) ==
    {RoundedXY(WorldLocation(sc.objects, legs[i])) : i \in DOMAIN legs}

\* Lines 364-371 and 402.
ExpectedXY(p) ==
    {RoundedXY(<<sx * OffsetX(p), sy * OffsetY(p)>>) :
        sx \in {1, -1}, sy \in {1, -1}}

\* The style heuristics without the rule on the taper/warp signal.
StyleIssuesWithoutSignalRule(leg_ratio, inset_ratio, p) ==
    AppendIf(~(Milli(60) <= leg_ratio /\ leg_ratio <= Milli(160)),
             Issue("Readability ratio leg_thickness out of range", ""))
    \o AppendIf(~(Milli(40) <= inset_ratio /\ inset_ratio <= Milli(200)),
                Issue("Readability ratio inset out of range", ""))
    \o AppendIf(p.leg_splay_deg < 3 * ONE,
                Issue("Non-boxy rule failed: leg_splay_deg", ""))

\* Lines 409-427: the style heuristics.
StyleIssuesOf(leg_ratio, inset_ratio, p) ==
    AppendIf(~(Milli(60) <= leg_ratio /\ leg_ratio <= Milli(160)),
             Issue("Readability ratio leg_thickness out of range", ""))
    \o AppendIf(~(Milli(40) <= inset_ratio /\ inset_ratio <= Milli(200)),
                Issue("Readability ratio inset out of range", ""))
    \o AppendIf(p.leg_splay_deg < 3 * ONE,
                Issue("Non-boxy rule failed: leg_splay_deg", ""))
    \o AppendIf(p.top_taper > Milli(950) /\ p.leg_taper > Milli(900)
                   /\ WarpIsNoOp(p.top_warp),
                Issue("Non-boxy rule failed: no taper/warp signal", ""))

StyleIssues(p) ==
    StyleIssuesOf(Div(p.leg_thickness, Min(p.top_width, p.top_depth)),
                  Div(p.inset, Min(p.top_width, p.top_depth)), p)

\* The list cut after its first entry.
FirstOnly(issues) == SubSeq(issues, 1, Min(1, Len(issues)))

\* validate_table returning at the first issue it finds.
validate_until_first_issue(sc, table_top, legs, p, leg_mesh_height) ==
    FirstOnly(AppendIf(Len(legs) # 4, Issue("Expected 4 legs", ""))
              \o TopIssues(sc, table_top, p)
              \o LegsIssues(sc, legs, Len(legs), table_top, p,
                            leg_mesh_height, z_touch_tolerance(p))
              \o AppendIf(ActualXY(sc, legs) # ExpectedXY(p),
                          Issue("Leg corner positions mismatch", ""))
              \o StyleIssues(p))

\* Lines 337-429: every check appends to the list, none returns early.
validate_table(sc, table_top, legs, p, leg_mesh_height) ==
    AppendIf(Len(legs) # 4, Issue("Expected 4 legs", ""))
    \o TopIssues(sc, table_top, p)
    \o LegsIssues(sc, legs, Len(legs), table_top, p, leg_mesh_height,
                  z_touch_tolerance(p))
    \o AppendIf(ActualXY(sc, legs) # ExpectedXY(p),
                Issue("Leg corner positions mismatch", ""))
    \o StyleIssues(p)

\* ------------------------------------------------------------------ actions

NoVal ==
    [status |-> "none", table_top |-> None, params |-> ScenarioA,
     legs |-> <<>>, leg_mesh_height |-> 0, issues |-> <<>>]

\* No run of main: the functions are called directly.
NoRun ==
    [pc |-> "idle",
     args |-> [params |-> ScenarioA, report_json |-> FALSE, render |-> FALSE,
               export_glb |-> FALSE, validate |-> FALSE],
     written |-> {}, printed |-> <<>>, exit |-> -1]

\* No helper called yet.
NoUnit == [fn |-> "none"]

\* A new SandboxRunner: not running, no application, camera or UI, no
\* bindings.
NewRunner ==
    [running |-> FALSE, app |-> FALSE, camera |-> FALSE, ui |-> FALSE,
     event_bindings |-> <<>>, task_handles |-> <<>>]

\* No run of haemwend.main.main yet: nothing called, nothing logged.
NoCli ==
    [pc |-> "idle",
     env |-> [enabled |-> FALSE, display |-> "ok", software_display |-> FALSE,
              session |-> "returns"],
     runner |-> NewRunner, constructions |-> 0, calls |-> 0, last |-> "none",
     started |-> FALSE, raised |-> "none", events |-> <<>>]

\* Blender's startup scene: the default cube, at the origin or moved away
\* from it by the user, and no LLM_Table collection yet.
Init ==
    /\ \E location \in {Zero3, <<ONE, 0, 0>>} :
          objects = <<0, 0>> :> StartupCube(location)
    /\ meshes = <<0, 0>> :> CubeVerts(2 * ONE)
    /\ collections = {}
    /\ calls = 0
    /\ ret = NoRet
    /\ val = NoVal
    /\ history = <<>>
    /\ run = NoRun
    /\ cli = NoCli
    /\ unit = NoUnit

\* The scene and the caller's result take the outcome r of a call.
Outcome(r) ==
    /\ objects' = r.scene.objects
    /\ meshes' = r.scene.meshes
    /\ collections' = r.scene.collections
    /\ ret' = r.ret

\* One call of create_low_poly_table.
Call(p) ==
    /\ calls < MaxCalls
    /\ Outcome(create_low_poly_table(Scene(objects, meshes, collections),
                                     calls + 1, p))
    /\ calls' = calls + 1
    /\ val' = NoVal
    /\ history' = Append(history, ret'.status)

\* The call made directly, outside a run of main.
Create(p) == Call(p) /\ UNCHANGED <<run, cli, unit>>

\* One call of validate_table on objects of the assembly the last call
\* returned: table_top as the tabletop and the first n of the legs.
Check(table_top, p, n, leg_mesh_height) ==
    /\ ret.status = "ok"
    /\ val.status = "none"
    /\ val' = [status |-> "done", table_top |-> table_top, params |-> p,
               legs |-> SubSeq(ret.legs, 1, n),
               leg_mesh_height |-> leg_mesh_height,
               issues |-> validate_table(Scene(objects, meshes, collections),
                                         table_top,
                                         SubSeq(ret.legs, 1, n), p,
                                         leg_mesh_height)]
    /\ UNCHANGED <<objects, meshes, collections, calls, ret, history>>

\* The call made directly, outside a run of main.
Validate(table_top, p, n, leg_mesh_height) ==
    Check(table_top, p, n, leg_mesh_height) /\ UNCHANGED <<run, cli, unit>>

\* main's --validate: the parameters of the build, the four legs it
\* returned and the leg_mesh_height it returned.
ValidateBuilt ==
    Validate(ret.table_top, ret.params, 4, ret.leg_mesh_height)

Next ==
    \/ \E p \in ParamSpace : Create(p)
    \/ ValidateBuilt

\* The script: builds, each followed or not by main's validation.
Spec == Init /\ [][Next]_vars

\* validate_table as a function of its arguments: a first build, then one
\* call with the build's parameters or with one of them changed, with the
\* returned legs or fewer, with the leg_mesh_height of the build or the one
\* the validator's own parameters give, or with a leg as the tabletop.
ValidatorParams(p) == {p} \cup OneChanged(p)

CreateFirst(p) == calls = 0 /\ Create(p)

ValidateAny ==
    \E p \in ValidatorParams(ret.params), n \in (4 - MaxDropLegs)..4 :
        \E h \in {ret.leg_mesh_height, LegMeshHeight(p)} :
            Validate(ret.table_top, p, n, h)

\* The same call with one of the legs passed where the tabletop belongs.
ValidateWrongTop ==
    \E i \in 1..4 :
        Validate(ret.legs[i], ret.params, 4, ret.leg_mesh_height)

NextValidate ==
    \/ \E p \in ParamSpace : CreateFirst(p)
    \/ ValidateAny
    \/ ValidateWrongTop

ValidateSpec == Init /\ [][NextValidate]_vars

\* ---------------------------------------------------------------- main

\* The command lines: the parameters and the four optional outputs.
MainArgs ==
    [params : ParamSpace, report_json : BOOLEAN, render : BOOLEAN,
     export_glb : BOOLEAN, validate : BOOLEAN]

\* validate before the report, the render and the export.
MainStepsValidateFirst == <<"create", "validate", "report", "render", "export">>

\* Lines 465-516: the order of main's steps.
MainSteps == <<"create", "report", "render", "export", "validate">>

StepIndex(pc) == CHOOSE i \in DOMAIN MainSteps : MainSteps[i] = pc

\* The run after its current step: at the next one, or over, status 0.
Advance(r) ==
    IF StepIndex(r.pc) = Len(MainSteps)
    THEN [r EXCEPT !.pc = "exited", !.exit = 0]
    ELSE [r EXCEPT !.pc = MainSteps[StepIndex(r.pc) + 1]]

\* The run ended by an exception: SystemExit(status), or 1 when uncaught.
Exit(r, status) == [r EXCEPT !.pc = "exited", !.exit = status]

Wrote(r, requested, what) ==
    IF requested THEN [r EXCEPT !.written = @ \cup {what}] ELSE r

Printed(r, line) == [r EXCEPT !.printed = Append(@, line)]

SceneUnchanged == UNCHANGED <<objects, meshes, collections, calls, ret, history>>

\* Lines 461-464: Blender starts the script with a command line.
MainStart(args) ==
    /\ run.pc = "idle"
    /\ calls = 0
    /\ run' = [NoRun EXCEPT !.pc = MainSteps[1], !.args = args]
    /\ UNCHANGED <<cli, unit>>
    /\ UNCHANGED val
    /\ SceneUnchanged

\* Lines 465-479: a ValueError of the builder is not caught.
MainCreate ==
    /\ run.pc = "create"
    /\ Call(run.args.params)
    /\ run' = IF ret'.status = "error" THEN Exit(run, 1) ELSE Advance(run)
    /\ UNCHANGED <<cli, unit>>

\* Lines 481-488: scene_report and maybe_write_report.
MainReport ==
    /\ run.pc = "report"
    /\ run' = Advance(Wrote(run, run.args.report_json, "report"))
    /\ UNCHANGED <<cli, unit>>
    /\ UNCHANGED val
    /\ SceneUnchanged

\* Lines 489-491: maybe_render.
MainRender ==
    /\ run.pc = "render"
    /\ run' = Advance(Wrote(run, run.args.render, "render"))
    /\ UNCHANGED <<cli, unit>>
    /\ UNCHANGED val
    /\ SceneUnchanged

\* Lines 492-493: _export_glb.
MainExport ==
    /\ run.pc = "export"
    /\ run' = Advance(Wrote(run, run.args.export_glb, "glb"))
    /\ UNCHANGED <<cli, unit>>
    /\ UNCHANGED val
    /\ SceneUnchanged

\* Lines 495-516: validation when asked for, SystemExit(2) on any issue.
MainValidate ==
    /\ run.pc = "validate"
    /\ UNCHANGED <<cli, unit>>
    /\ IF run.args.validate
       THEN /\ Check(ret.table_top, ret.params, 4, ret.leg_mesh_height)
            /\ run' = IF val'.issues # <<>>
                      THEN Exit(Printed(run, "VALIDATION: FAIL"), 2)
                      ELSE Advance(Printed(run, "VALIDATION: PASS"))
       ELSE /\ run' = Advance(run)
            /\ UNCHANGED val
            /\ SceneUnchanged

NextMain ==
    \/ \E args \in MainArgs : MainStart(args)
    \/ MainCreate
    \/ MainReport
    \/ MainRender
    \/ MainExport
    \/ MainValidate

\* One run of the script in a fresh Blender.
MainSpec == Init /\ [][NextMain]_vars

\* ---------------------------------------------------- haemwend.main.main

\* What a run of the sandbox meets: the configuration's enabled flag, what
\* constructing SandboxApp does (a window, "No graphics pipe is available",
\* another error, or the user's Ctrl-C), whether a software display could
\* be configured, and how the interactive session ends.
CliEnvs ==
    [enabled : BOOLEAN, display : {"ok", "no_pipe", "error", "interrupt"},
     software_display : BOOLEAN, session : {"returns", "interrupt", "error"}]

Logged(c, event) == [c EXCEPT !.events = Append(@, event)]

\* The exception SandboxApp() raises in an environment, "none" for a window.
ConstructionError(env) ==
    CASE env.display = "ok" -> "none"
      [] env.display = "no_pipe" -> "Exception"
      [] env.display = "interrupt" -> "KeyboardInterrupt"
      [] OTHER -> "RuntimeError"

\* The exception app.start() ends with, "none" when the window is closed.
SessionError(env) ==
    CASE env.session = "returns" -> "none"
      [] env.session = "interrupt" -> "KeyboardInterrupt"
      [] OTHER -> "RuntimeError"

\* The fields of the CameraSettings dataclass, and the keywords
\* _camera_settings_from_config calls it with.
CameraSettingsFields ==
    {"distance", "height", "mouse_sensitivity", "min_pitch", "max_pitch",
     "zoom_speed", "min_distance", "max_distance"}

CameraSettingsKeywords ==
    {"move_speed", "sprint_multiplier", "mouse_sensitivity",
     "vertical_look_limit", "boundary_radius", "ground_height"}

\* A dataclass's __init__ takes its fields and no other keyword.
camera_settings_from_config ==
    IF CameraSettingsKeywords \subseteq CameraSettingsFields
    THEN "none" ELSE "TypeError"

\* bind(self, base, target) has two required parameters; launch calls
\* camera.bind(app).
CameraBindParameters == <<"base", "target">>

CameraBindArguments == <<"app">>

camera_bind ==
    IF Len(CameraBindArguments) = Len(CameraBindParameters)
    THEN "none" ELSE "TypeError"

\* What a call of a runner's method did: the runner after it, what it
\* returned or raised, what it logged and called, and how many SandboxApp
\* constructions it made.
CallResult(runner, returned, raised, events, constructions) ==
    [runner |-> runner, returned |-> returned, raised |-> raised,
     events |-> events, constructions |-> constructions]

\* Lines 155-179: _running set, app.start(), and the finally block that
\* removes the bindings, unbinds camera and UI, forgets the application and
\* clears _running before sandbox.stopped is logged.
LaunchSession(r, env, events) ==
    CallResult([r EXCEPT !.running = FALSE, !.app = FALSE, !.camera = FALSE,
                         !.ui = FALSE, !.event_bindings = <<>>,
                         !.task_handles = <<>>],
               SessionError(env) = "none", SessionError(env),
               events \o <<"running", "app.start", "sandbox.stopped">>, 1)

\* Lines 138-153, after self._app = app: the camera, the UI, the bindings
\* and the environment; the first exception leaves launch.
LaunchSetup(r, env, events) ==
    IF camera_settings_from_config # "none"
    THEN CallResult(r, FALSE, camera_settings_from_config, events, 1)
    ELSE IF camera_bind # "none"
    THEN CallResult(r, FALSE, camera_bind, events, 1)
    ELSE LaunchSession([r EXCEPT !.camera = TRUE, !.ui = TRUE,
                                 !.event_bindings = <<"h", "H">>,
                                 !.task_handles = <<"sandbox-ui-feedback">>],
                       env, events \o <<"camera.bind", "ui.bind">>)

\* SandboxRunner.launch on the runner r.
launch(r, env) ==
    IF r.running
    THEN CallResult(r, TRUE, "none", <<"sandbox.already_running">>, 0)
    ELSE IF ~env.enabled
    THEN CallResult(r, FALSE, "none",
                    <<"sandbox.config.overrides", "sandbox.disabled">>, 0)
    ELSE IF ConstructionError(env) # "none"
    THEN CallResult(r, FALSE, ConstructionError(env),
                    <<"sandbox.config.overrides", "sandbox.starting",
                      "SandboxApp">>, 1)
    ELSE LaunchSetup([r EXCEPT !.app = TRUE], env,
                     <<"sandbox.config.overrides", "sandbox.starting",
                       "SandboxApp">>)

\* SandboxRunner.shutdown on the runner r.
shutdown(r) ==
    IF ~r.running
    THEN CallResult(r, FALSE, "none", <<"sandbox.not_running">>, 0)
    ELSE CallResult([r EXCEPT !.running = FALSE, !.camera = FALSE,
                              !.app = FALSE, !.ui = FALSE,
                              !.event_bindings = IF r.app THEN <<>> ELSE @,
                              !.task_handles = IF r.app THEN <<>> ELSE @],
                    FALSE, "none", <<"sandbox.stopping">>, 0)

\* The run after a call of the runner's method named by what.
AfterCall(c, what, res) ==
    [c EXCEPT !.runner = res.runner,
              !.constructions = @ + res.constructions,
              !.started = res.returned,
              !.raised = res.raised,
              !.events = (@ \o <<what>>) \o res.events,
              !.calls = @ + 1,
              !.last = what]

\* sandbox.cli.exit logged before the runner is shut down.
CliFinallyExitFirst == <<"exit", "shutdown">>

\* main's finally block: runner.shutdown(), then the exit event.
CliFinally == <<"shutdown", "exit">>

\* The position after a step of the finally block.
AfterFinally(pc) ==
    LET i == CHOOSE k \in DOMAIN CliFinally : CliFinally[k] = pc
    IN  IF i = Len(CliFinally) THEN "done" ELSE CliFinally[i + 1]

AppsUnchanged ==
    UNCHANGED <<objects, meshes, collections, calls, ret, val, history, run,
                unit>>

\* main up to the try: the logger, a new SandboxRunner, the start event.
CliStart(env) ==
    /\ cli.pc = "idle"
    /\ cli' = Logged([NoCli EXCEPT !.pc = "launch", !.env = env],
                     "sandbox.cli.start")
    /\ AppsUnchanged

\* started = runner.launch(): it returns or it raises.
CliLaunch ==
    /\ cli.pc = "launch"
    /\ cli' = [AfterCall(cli, "launch", launch(cli.runner, cli.env))
                 EXCEPT !.pc = IF launch(cli.runner, cli.env).raised = "none"
                               THEN "returned" ELSE "raised"]
    /\ AppsUnchanged

\* main after launch: the disabled event for a False, the interrupted
\* warning for a KeyboardInterrupt; any other exception stays raised.
CliHandle ==
    /\ cli.pc \in {"returned", "raised"}
    /\ cli' =
         IF cli.pc = "returned"
         THEN [(IF cli.started THEN cli
                ELSE Logged(cli, "sandbox.cli.disabled"))
                 EXCEPT !.pc = CliFinally[1]]
         ELSE IF cli.raised = "KeyboardInterrupt"
         THEN [Logged(cli, "sandbox.cli.interrupted")
                 EXCEPT !.raised = "none", !.pc = CliFinally[1]]
         ELSE [cli EXCEPT !.pc = CliFinally[1]]
    /\ AppsUnchanged

\* runner.shutdown() in main's finally block; an exception of launch that
\* main did not catch stays raised.
CliShutdown ==
    /\ cli.pc = "shutdown"
    /\ cli' = [AfterCall(cli, "shutdown", shutdown(cli.runner))
                 EXCEPT !.pc = AfterFinally("shutdown"),
                        !.started = cli.started, !.raised = cli.raised]
    /\ AppsUnchanged

\* The last line of main's finally block.
CliExit ==
    /\ cli.pc = "exit"
    /\ cli' = [Logged(cli, "sandbox.cli.exit")
                 EXCEPT !.pc = AfterFinally("exit")]
    /\ AppsUnchanged

NextCli ==
    \/ \E env \in CliEnvs : CliStart(env)
    \/ CliLaunch
    \/ CliHandle
    \/ CliShutdown
    \/ CliExit

\* One run of the haemwend command.
CliSpec == Init /\ [][NextCli]_vars

\* A SandboxRunner used directly: created in an environment, then launch
\* and shutdown called on it in any order.
RunnerNew(env) ==
    /\ cli.pc = "idle"
    /\ cli' = [NoCli EXCEPT !.pc = "runner", !.env = env]
    /\ AppsUnchanged

RunnerLaunch ==
    /\ cli.pc = "runner"
    /\ cli.calls < MaxRunnerCalls
    /\ cli' = AfterCall(cli, "launch", launch(cli.runner, cli.env))
    /\ AppsUnchanged

RunnerShutdown ==
    /\ cli.pc = "runner"
    /\ cli.calls < MaxRunnerCalls
    /\ cli' = AfterCall(cli, "shutdown", shutdown(cli.runner))
    /\ AppsUnchanged

NextRunner ==
    \/ \E env \in CliEnvs : RunnerNew(env)
    \/ RunnerLaunch
    \/ RunnerShutdown

RunnerSpec == Init /\ [][NextRunner]_vars

\* ------------------------------------------------- the two mesh deformers

\* A box with a loop of vertices at half height and the middles of its top
\* edges: twelve more vertices, some on the X and Y axes.
BoxWithLoops(lo, hi) ==
    LET m == <<Half(lo[1] + hi[1]), Half(lo[2] + hi[2]), Half(lo[3] + hi[3])>>
    IN  Corners(lo, hi)
        \o Corners(<<lo[1], lo[2], m[3]>>, <<hi[1], hi[2], m[3]>>)
        \o << <<m[1], lo[2], hi[3]>>, <<m[1], hi[2], hi[3]>>,
              <<lo[1], m[2], hi[3]>>, <<hi[1], m[2], hi[3]>> >>

\* Meshes the deformers are called on: the tabletop and the template leg
\* of the defaults after _apply_scale, a tabletop of no thickness, a box
\* standing on the origin's corner, and boxes with more than eight vertices.
Shapes ==
    {Corners(<<-Milli(600), -Milli(600), -Milli(40)>>,
             <<Milli(600), Milli(600), Milli(40)>>),
     Corners(<<-Milli(50), -Milli(50), -Milli(335)>>,
             <<Milli(50), Milli(50), Milli(335)>>),
     Corners(<<-Milli(500), -Milli(400), 0>>, <<Milli(500), Milli(400), 0>>),
     Corners(<<0, 0, 0>>, <<Milli(300), Milli(200), Milli(100)>>),
     Corners(<<-Milli(300), -Milli(200), Milli(10)>>,
             <<Milli(300), Milli(200), Milli(10) + 1>>),
     BoxWithLoops(<<-Milli(600), -Milli(400), -Milli(40)>>,
                  <<Milli(600), Milli(400), Milli(40)>>),
     BoxWithLoops(<<-Milli(100), 0, 0>>, <<Milli(300), Milli(200), Milli(80)>>)}

\* The scales and the strengths the deformers are called with.
TaperScales == {Milli(600), Milli(820), Milli(900), ONE, Milli(1250)}

WarpStrengths == {0, 5, 10, 11, -11, 80 * ONE, -80 * ONE}

\* One call of _taper_mesh_z on a mesh.
TaperMesh(verts, bottom_scale, top_scale) ==
    /\ unit.fn = "none"
    /\ unit' = [fn |-> "_taper_mesh_z", verts |-> verts,
                bottom_scale |-> bottom_scale, top_scale |-> top_scale,
                result |-> taper_verts(verts, bottom_scale, top_scale)]
    /\ UNCHANGED <<objects, meshes, collections, calls, ret, val, history,
                   run, cli>>

\* One call of _warp_top_surface on a mesh.
WarpMesh(verts, strength) ==
    /\ unit.fn = "none"
    /\ unit' = [fn |-> "_warp_top_surface", verts |-> verts,
                strength |-> strength, result |-> warp_verts(verts, strength)]
    /\ UNCHANGED <<objects, meshes, collections, calls, ret, val, history,
                   run, cli>>

NextMesh ==
    \/ \E verts \in Shapes, bottom_scale \in TaperScales,
          top_scale \in TaperScales :
          TaperMesh(verts, bottom_scale, top_scale)
    \/ \E verts \in Shapes, strength \in WarpStrengths :
          WarpMesh(verts, strength)

\* The deformers as functions of a mesh and their arguments.
MeshSpec == Init /\ [][NextMesh]_vars

\* ------------------------------------------------ compare_perf_results.py

\* The inputs of a comparison: the medians read from the base and the head
\* CSV, by scenario (the scenario names are numbered in sorted order), and
\* --max-regression-pct. Medians in ns, percentages, both in millionths.
PerfInputs ==
    LET names == 1..2
        metrics(medians) ==
            UNION {[present -> medians] : present \in SUBSET names}
    IN  [base : metrics({-100 * ONE, 0, 100 * ONE}),
         head : metrics({100 * ONE, 110 * ONE, 111 * ONE}),
         max_regression_pct : {0, 10 * ONE}]

\* sorted(s), for a set of numbered names.
RECURSIVE sorted(_)
sorted(s) ==
    IF s = {} THEN <<>>
    ELSE LET least == CHOOSE n \in s : \A m \in s : n <= m
         IN  <<least>> \o sorted(s \ {least})

\* ((head - base) / base) * 100.0
DeltaPct(base_median, head_median) ==
    Mul(Div(head_median - base_median, base_median), 100 * ONE)

\* A scenario fails the gate at the threshold already.
FailsAtThreshold(delta_pct, max_regression_pct) ==
    delta_pct >= max_regression_pct

\* Line 78: delta_pct > args.max_regression_pct.
Fails(delta_pct, max_regression_pct) == delta_pct > max_regression_pct

\* Lines 67-93: the loop over the sorted names from the i-th on, with the
\* names that failed so far, and the return after it.
RECURSIVE Compare(_, _, _, _, _)
Compare(names, i, failing, base, in) ==
    IF i > Len(names)
    THEN [status |-> IF failing # <<>> THEN 1 ELSE 0, rows |-> Len(names),
          failing |-> failing]
    ELSE IF base[names[i]] <= 0
    THEN [status |-> 3, rows |-> i, failing |-> failing]
    ELSE Compare(names, i + 1,
                 IF Fails(DeltaPct(base[names[i]], in.head[names[i]]),
                          in.max_regression_pct)
                 THEN Append(failing, names[i]) ELSE failing,
                 base, in)

\* main of the script, after the two files are read: the exit status, the
\* number of scenario rows printed and the failing scenarios.
perf_main(in) ==
    IF (DOMAIN in.base \ DOMAIN in.head) \cup (DOMAIN in.head \ DOMAIN in.base)
          # {}
    THEN [status |-> 2, rows |-> 0, failing |-> <<>>]
    ELSE Compare(sorted(DOMAIN in.base), 1, <<>>, in.base, in)

\* One run of the script.
PerfMain(in) ==
    /\ unit.fn = "none"
    /\ unit' = [fn |-> "compare_perf_results.main", in |-> in,
                result |-> perf_main(in)]
    /\ UNCHANGED <<objects, meshes, collections, calls, ret, val, history,
                   run, cli>>

NextPerf == \E in \in PerfInputs : PerfMain(in)

PerfSpec == Init /\ [][NextPerf]_vars

\* ------------------------------------------- table.py in binary64 floats

\* A float is a sign and a magnitude. The magnitude is four limbs of 24
\* bits, the most significant first, counting 2^-72: room below the 53
\* significant bits of every float from 2^-7 up to 16.
ZeroLimbs == <<0, 0, 0, 0>>

AddLimbs(a, b) ==
    LET s4 == a[4] + b[4]
        s3 == a[3] + b[3] + s4 \div 2^24
        s2 == a[2] + b[2] + s3 \div 2^24
        s1 == a[1] + b[1] + s2 \div 2^24
    IN  <<s1 % 2^24, s2 % 2^24, s3 % 2^24, s4 % 2^24>>

\* a - b for a >= b.
SubLimbs(a, b) ==
    LET d4 == a[4] - b[4]
        d3 == a[3] - b[3] - (IF d4 < 0 THEN 1 ELSE 0)
        d2 == a[2] - b[2] - (IF d3 < 0 THEN 1 ELSE 0)
        d1 == a[1] - b[1] - (IF d2 < 0 THEN 1 ELSE 0)
    IN  <<d1 % 2^24, d2 % 2^24, d3 % 2^24, d4 % 2^24>>

LessLimbs(a, b) ==
    \E i \in 1..4 : a[i] < b[i] /\ \A j \in 1..(i - 1) : a[j] = b[j]

\* The number of significant bits of a magnitude.
BitLength(a) ==
    IF a = ZeroLimbs THEN 0
    ELSE LET lead == CHOOSE i \in 1..4 :
                         a[i] > 0 /\ \A j \in 1..(i - 1) : a[j] = 0
         IN  (4 - lead) * 24
               + (CHOOSE k \in 1..24 : 2^(k - 1) <= a[lead] /\ a[lead] < 2^k)

\* Round to nearest, ties to even, at 53 significant bits; sticky says that
\* the exact value has more below the last bit of a.
Round53(a, sticky) ==
    IF BitLength(a) <= 53 THEN a
    ELSE LET drop == BitLength(a) - 53
             below == a[4] % 2^drop
             odd == (a[4] \div 2^drop) % 2 = 1
             up == \/ below > 2^(drop - 1)
                   \/ below = 2^(drop - 1) /\ (sticky \/ odd)
         IN  AddLimbs(<<a[1], a[2], a[3], a[4] - below>>,
                      <<0, 0, 0, IF up THEN 2^drop ELSE 0>>)

\* float("n/den" written as a decimal), 0 <= n / den < 16: the nearest float.
Float(n, den) ==
    LET r1 == n % den
        r2 == (r1 * 2^24) % den
        r3 == (r2 * 2^24) % den
    IN  [neg |-> FALSE,
         mag |-> Round53(<<n \div den, (r1 * 2^24) \div den,
                           (r2 * 2^24) \div den, (r3 * 2^24) \div den>>,
                         (r3 * 2^24) % den # 0)]

\* x + y
FAdd(x, y) ==
    IF x.neg = y.neg
    THEN [neg |-> x.neg, mag |-> Round53(AddLimbs(x.mag, y.mag), FALSE)]
    ELSE IF x.mag = y.mag THEN [neg |-> FALSE, mag |-> ZeroLimbs]
    ELSE IF LessLimbs(y.mag, x.mag)
    THEN [neg |-> x.neg, mag |-> Round53(SubLimbs(x.mag, y.mag), FALSE)]
    ELSE [neg |-> y.neg, mag |-> Round53(SubLimbs(y.mag, x.mag), FALSE)]

\* x - y
FSub(x, y) == FAdd(x, [y EXCEPT !.neg = ~y.neg])

\* x * 0.5, x / 2.0: exact.
FHalf(x) ==
    [x EXCEPT !.mag = <<x.mag[1] \div 2,
                        x.mag[2] \div 2 + (x.mag[1] % 2) * 2^23,
                        x.mag[3] \div 2 + (x.mag[2] % 2) * 2^23,
                        x.mag[4] \div 2 + (x.mag[3] % 2) * 2^23>>]

\* x < y
FLess(x, y) ==
    IF x.mag = ZeroLimbs /\ y.mag = ZeroLimbs THEN FALSE
    ELSE IF x.neg # y.neg THEN x.neg
    ELSE IF x.neg THEN LessLimbs(y.mag, x.mag)
    ELSE LessLimbs(x.mag, y.mag)

\* min(x, y)
FMin(x, y) == IF FLess(y, x) THEN y ELSE x

\* The lengths of a call, in hundredths of a metre as they are written; the
\* other parameters are those of a scenario that passes lines 179-190.
FloatInputs ==
    [top_width : {80, 100, 120}, top_depth : {80, 100, 120},
     leg_thickness : {8, 10, 30, 50}, inset : {0, 10, 25, 35, 45}]

\* Lines 192-200 and 233-234 on floats: the error of the inset checks, ""
\* when they pass, the two offsets and whether the footprint of a leg is
\* inside the top's on each axis.
float_offsets(in) ==
    LET top_width == Float(in.top_width, 100)
        top_depth == Float(in.top_depth, 100)
        leg_thickness == Float(in.leg_thickness, 100)
        inset == Float(in.inset, 100)
        max_inset == FHalf(FSub(FMin(top_width, top_depth), leg_thickness))
        offset_x == FSub(FSub(FHalf(top_width), inset), FHalf(leg_thickness))
        offset_y == FSub(FSub(FHalf(top_depth), inset), FHalf(leg_thickness))
    IN  [error |->
            IF ~FLess(Float(0, 1), max_inset)
            THEN "top_width/top_depth must be greater than leg_thickness"
            ELSE IF FLess(max_inset, inset) THEN "inset is too large"
            ELSE "",
         max_inset |-> max_inset,
         offset_x |-> offset_x,
         offset_y |-> offset_y,
         inside_x |-> ~FLess(FHalf(top_width),
                             FAdd(offset_x, FHalf(leg_thickness))),
         inside_y |-> ~FLess(FHalf(top_depth),
                             FAdd(offset_y, FHalf(leg_thickness)))]

\* The checks and the offsets of one call.
FloatOffsets(in) ==
    /\ unit.fn = "none"
    /\ unit' = [fn |-> "create_low_poly_table.offsets", in |-> in,
                result |-> float_offsets(in)]
    /\ UNCHANGED <<objects, meshes, collections, calls, ret, val, history,
                   run, cli>>

NextFloat == \E in \in FloatInputs : FloatOffsets(in)

FloatSpec == Init /\ [][NextFloat]_vars

\* ----------------------------------------------------- config_loader.py

\* The default primitives, by name and type (positions, scales and colours
\* are constants of the same tuple).
DEFAULT_PRIMITIVES ==
    <<[name |-> "central_obelisk", type |-> "cylinder"],
      [name |-> "west_pillar", type |-> "cube"],
      [name |-> "north_orb", type |-> "sphere"]>>

\* CameraConfig()
DEFAULT_CAMERA_CONFIG ==
    [move_speed |-> Milli(5500), sprint_multiplier |-> Milli(1800),
     mouse_sensitivity |-> Milli(150), vertical_look_limit |-> 82 * ONE]

\* SandboxConfig(): every field at the default of its dataclass.
SandboxConfig ==
    [enabled |-> TRUE, camera |-> DEFAULT_CAMERA_CONFIG,
     environment |-> [boundary_radius |-> 30 * ONE, primitives |-> <<>>]]

default_sandbox_config ==
    [enabled |-> TRUE, camera |-> DEFAULT_CAMERA_CONFIG,
     environment |-> [boundary_radius |-> 30 * ONE,
                      primitives |-> DEFAULT_PRIMITIVES]]

\* The configuration files: none, or a TOML payload. A key of the payload
\* is a set, empty when the key is absent.
ConfigFiles ==
    [exists : {FALSE}, enabled : {{}}, move_speed : {{}},
     mouse_sensitivity : {{}}, boundary_radius : {{}}, primitives : {{}}]
    \cup
    [exists : {TRUE}, enabled : {{}, {TRUE}, {FALSE}},
     move_speed : {{}, {Milli(5500)}, {8 * ONE}, {40 * ONE}},
     mouse_sensitivity : {{}, {Milli(300)}},
     boundary_radius : {{}, {30 * ONE}, {50 * ONE}},
     primitives : {{}, {<<>>}, {DEFAULT_PRIMITIVES},
                   {<<[name |-> "crate", type |-> "cube"]>>}}]

\* section.get(key, default)
Get(key, default) == IF key = {} THEN default ELSE CHOOSE v \in key : TRUE

\* Lines 136-147 with _parse_camera and _parse_environment: the error of the
\* first bound that fails, or the configuration.
parse_sandbox_config(payload) ==
    LET move_speed == Get(payload.move_speed, DEFAULT_CAMERA_CONFIG.move_speed)
        mouse_sensitivity ==
            Get(payload.mouse_sensitivity,
                DEFAULT_CAMERA_CONFIG.mouse_sensitivity)
        boundary_radius == Get(payload.boundary_radius, 30 * ONE)
        primitives == Get(payload.primitives, <<>>)
    IN  IF move_speed < Milli(500) \/ move_speed > 30 * ONE
        THEN [error |-> "camera.move_speed must be between 0.5 and 30.0",
              config |-> SandboxConfig]
        ELSE IF mouse_sensitivity < Milli(10) \/ mouse_sensitivity > ONE
        THEN [error |-> "camera.mouse_sensitivity must be between 0.01 and 1.0",
              config |-> SandboxConfig]
        ELSE IF boundary_radius < 5 * ONE \/ boundary_radius > 150 * ONE
        THEN [error |->
                 "environment.boundary_radius must be between 5.0 and 150.0",
              config |-> SandboxConfig]
        ELSE [error |-> "",
              config |->
                 [enabled |-> Get(payload.enabled, TRUE),
                  camera |->
                     [DEFAULT_CAMERA_CONFIG EXCEPT
                         !.move_speed = move_speed,
                         !.mouse_sensitivity = mouse_sensitivity],
                  environment |->
                     [boundary_radius |-> boundary_radius,
                      primitives |-> IF primitives = <<>>
                                     THEN DEFAULT_PRIMITIVES
                                     ELSE primitives]]]

\* Lines 120-133.
load_sandbox_config(file) ==
    IF ~file.exists THEN [error |-> "", config |-> SandboxConfig]
    ELSE parse_sandbox_config(file)

\* _diff_structures on two dictionaries of numbers and tuples: the entries
\* of current that differ from default's.
diff_structures(default, current) ==
    [key \in {k \in DOMAIN current : current[k] # default[k]} |-> current[key]]

\* Lines 287-293: the dictionary of the differences from
\* default_sandbox_config(), a section that does not differ left out.
summarize_config_overrides(config) ==
    LET camera == diff_structures(default_sandbox_config.camera, config.camera)
        environment == diff_structures(default_sandbox_config.environment,
                                       config.environment)
    IN  [key \in {k \in {"enabled"} :
                     config.enabled # default_sandbox_config.enabled}
                 \cup {k \in {"camera"} : DOMAIN camera # {}}
                 \cup {k \in {"environment"} : DOMAIN environment # {}} |->
            IF key = "enabled" THEN <<config.enabled>>
            ELSE IF key = "camera" THEN camera ELSE environment]

\* SandboxRunner.reload_config: the file is loaded and the overrides are
\* logged.
ReloadConfig(file) ==
    /\ unit.fn = "none"
    /\ unit' =
          LET loaded == load_sandbox_config(file)
              overrides == summarize_config_overrides(loaded.config)
          IN  IF loaded.error # ""
              THEN [fn |-> "reload_config", in |-> file,
                    raised |-> loaded.error, config |-> loaded.config,
                    overrides |-> <<>>, using_defaults |-> FALSE,
                    logged |-> FALSE]
              ELSE [fn |-> "reload_config", in |-> file, raised |-> "",
                    config |-> loaded.config, overrides |-> overrides,
                    using_defaults |-> DOMAIN overrides = {},
                    logged |-> TRUE]
    /\ UNCHANGED <<objects, meshes, collections, calls, ret, val, history,
                   run, cli>>

NextConfig == \E file \in ConfigFiles : ReloadConfig(file)

ConfigSpec == Init /\ [][NextConfig]_vars

\* ------------------------------------------------ edits of a returned leg

\* How far a caller moves a vertex.
Nudges == {<<Milli(10), 0, 0>>, <<0, 0, -Milli(5)>>}

\* The meshes of the four returned legs, in order.
LegMeshes == [i \in 1..4 |-> meshes[objects[ret.legs[i]].data]]

\* A caller moves vertex k of the i-th returned leg: a write to
\* leg.data.vertices[k].co, that is to the datablock the leg points at.
EditLegVertex(i, k, d) ==
    /\ ret.status = "ok"
    /\ unit.fn = "none"
    /\ k \in DOMAIN LegMeshes[i]
    /\ meshes' =
          [meshes EXCEPT ![objects[ret.legs[i]].data][k] =
              <<@[1] + d[1], @[2] + d[2], @[3] + d[3]>>]
    /\ unit' = [fn |-> "edit", leg |-> i, vertex |-> k, before |-> LegMeshes]
    /\ UNCHANGED <<objects, collections, calls, ret, val, history, run, cli>>

NextEdit ==
    \/ \E p \in ParamSpace : CreateFirst(p)
    \/ \E i \in 1..4, k \in 1..8, d \in Nudges : EditLegVertex(i, k, d)

\* A build, then one edit of one vertex of one of its legs.
EditSpec == Init /\ [][NextEdit]_vars

\* ----------------------------------------------------------- properties

Called == ret.status # "none"

InCollection ==
    {i \in DOMAIN objects : objects[i].coll = COLLECTION_NAME}

\* The checks of lines 179-190, as conditions on the parameters.
RangeChecksPass(p) ==
    /\ p.table_height > p.top_thickness
    /\ p.inset >= 0
    /\ Milli(600) <= p.top_taper /\ p.top_taper <= ONE
    /\ Milli(600) <= p.leg_taper /\ p.leg_taper <= ONE
    /\ 0 <= p.leg_splay_deg /\ p.leg_splay_deg <= 20 * ONE

WarpLimit(p) == p.top_thickness * WarpLimitPerLen

WarpCheckPasses(p) == Abs(p.top_warp) <= WarpLimit(p)

\* (min(top_width, top_depth) - leg_thickness) * 0.5
MaxInsetOf(p) == Half(Min(p.top_width, p.top_depth) - p.leg_thickness)

InsetChecksPass(p) == MaxInsetOf(p) > 0 /\ p.inset <= MaxInsetOf(p)

AllChecksPass(p) ==
    RangeChecksPass(p) /\ WarpCheckPasses(p) /\ InsetChecksPass(p)

\* C1: a call whose parameters fail any of the checks raises, and leaves the
\* scene as it was: the objects, their meshes and the collections, with the
\* assembly of an earlier call still in LLM_Table and no new object.
C1_FailFast ==
    [][(calls' = calls + 1 /\ ~AllChecksPass(ret'.params))
          => /\ ret'.status = "error"
             /\ objects' = objects
             /\ meshes' = meshes
             /\ collections' = collections]_vars

\* A failed call after a successful one, the first assembly still there.
C1_FailedAfterBuild ==
    /\ history = <<"ok", "error">>
    /\ ~AllChecksPass(ret.params)
    /\ <<1, 0>> \in InCollection

SuccessfulCalls == {i \in DOMAIN history : history[i] = "ok"}

MostRecentSuccess ==
    CHOOSE g \in SuccessfulCalls : \A i \in SuccessfulCalls : i <= g

\* The objects call g created and left in the scene.
BuiltBy(g) == {TopId(g)} \cup {LegId(g, i) : i \in 1..4}

\* C2: once a call has succeeded, LLM_Table holds exactly the objects of the
\* most recent successful build: its TableTop and its TableLeg.001 to
\* TableLeg.004, each parented to that TableTop; no template leg and no
\* object of an earlier build is left anywhere in the scene.
C2_OnlyLatestBuild ==
    SuccessfulCalls # {} =>
        /\ InCollection = BuiltBy(MostRecentSuccess)
        /\ objects[TopId(MostRecentSuccess)].name = "TableTop"
        /\ \A i \in 1..4 :
              /\ objects[LegId(MostRecentSuccess, i)].name = LegName(i)
              /\ objects[LegId(MostRecentSuccess, i)].parent
                    = TopId(MostRecentSuccess)
        /\ \A i \in DOMAIN objects :
              /\ objects[i].name # "TableLeg_Template"
              /\ objects[i].name \in {"TableTop"} \cup {LegName(k) : k \in 1..4}
                    => i \in BuiltBy(MostRecentSuccess)

\* A second successful build over the first.
C2_Rebuilt == history = <<"ok", "ok">> /\ TopId(2) \in InCollection

\* The place and the rotation lines 247-248 give leg i.
ExpectedLegPlace(p, i) ==
    <<SignX(i) * (Half(p.top_width) - p.inset - Half(p.leg_thickness)),
      SignY(i) * (Half(p.top_depth) - p.inset - Half(p.leg_thickness)),
      Half(p.table_height - p.top_thickness)>>

ExpectedLegRotation(p, i) ==
    <<SignY(i) * radians(p.leg_splay_deg),
      SignX(i) * radians(p.leg_splay_deg), 0>>

\* C3: after a successful call the four legs are, in order, at the world
\* XY (+ox,+oy), (+ox,-oy), (-ox,+oy), (-ox,-oy) and at world Z
\* leg_height/2, children of the tabletop, with the rotation they were given
\* before they were parented.
C3_LegsStayInPlace ==
    ret.status = "ok" =>
        \A i \in 1..4 :
            /\ objects[ret.legs[i]].parent = ret.table_top
            /\ WorldLocation(objects, ret.legs[i])
                  = ExpectedLegPlace(ret.params, i)
            /\ objects[ret.legs[i]].rotation_euler
                  = ExpectedLegRotation(ret.params, i)

\* Legs parented to a tabletop that is away from the origin.
C3_ParentedToRaisedTop ==
    /\ ret.status = "ok"
    /\ WorldLocation(objects, ret.table_top)[3] > 0
    /\ \A i \in 1..4 : objects[ret.legs[i]].parent = ret.table_top

\* A splay the arithmetic resolves: 0.1 degree.
ResolvedSplay == ONE \div 10

C5_InsetBoundaryInclusive ==
    (/\ Called
     /\ RangeChecksPass(ret.params)
     /\ WarpCheckPasses(ret.params)
     /\ MaxInsetOf(ret.params) > 0)
        => /\ ret.params.inset = MaxInsetOf(ret.params) => ret.status = "ok"
           /\ ret.params.inset > MaxInsetOf(ret.params)
                 => /\ ret.status = "error"
                    /\ ret.error = "inset is too large for given dimensions"

\* A build with the inset at max_inset exactly.
C5_BuiltAtMaxInset ==
    ret.status = "ok" /\ ret.params.inset = MaxInsetOf(ret.params)

\* C6: with every other check passing, the call is accepted when
\* |top_warp| equals 0.45 * top_thickness exactly and rejected when it is
\* larger.
C6_WarpBoundaryInclusive ==
    (/\ Called
     /\ RangeChecksPass(ret.params)
     /\ InsetChecksPass(ret.params))
        => /\ Abs(ret.params.top_warp) = WarpLimit(ret.params)
                 => ret.status = "ok"
           /\ Abs(ret.params.top_warp) > WarpLimit(ret.params)
                 => /\ ret.status = "error"
                    /\ ret.error
                          = "top_warp is too large for the given top_thickness"

\* A build with a warp of 0.45 * top_thickness exactly.
C6_BuiltAtWarpLimit ==
    /\ ret.status = "ok"
    /\ ret.params.top_thickness > 0
    /\ Abs(ret.params.top_warp) = WarpLimit(ret.params)

\* Scenario C of the specification: a 0.5 x 0.5 top, legs 0.3 thick, any
\* inset >= 0, everything else as in the defaults.
IsScenarioC(p) == p.inset >= 0 /\ [p EXCEPT !.inset = ScenarioC.inset] = ScenarioC

\* C7 as stated: Scenario C fails with the max_inset <= 0 error.
C7_ScenarioCRejected ==
    (Called /\ IsScenarioC(ret.params))
        => /\ ret.status = "error"
           /\ ret.error
                 = "top_width/top_depth must be greater than leg_thickness"

\* C7, amended: in Scenario C max_inset is 0.1, so the max_inset <= 0 error
\* is never raised; the call builds the table when inset <= 0.1 and fails
\* with the 'inset is too large' error when inset > 0.1.
C7_ScenarioCDependsOnInset ==
    (Called /\ IsScenarioC(ret.params))
        => /\ ret.error
                 # "top_width/top_depth must be greater than leg_thickness"
           /\ ret.params.inset <= Milli(100)
                 => ret.status = "ok" /\ ret.table_top \in InCollection
           /\ ret.params.inset > Milli(100)
                 => /\ ret.status = "error"
                    /\ ret.error = "inset is too large for given dimensions"

\* Scenario C with the default inset, built.
C7_ScenarioCBuilt ==
    /\ ret.status = "ok"
    /\ ret.params = ScenarioC
    /\ ret.table_top \in InCollection

\* C8 as stated: every accepted parameter set has positive lengths, a
\* non-negative inset, table_height > top_thickness,
\* min(top_width, top_depth) > leg_thickness and inset <= max_inset.
C8_AcceptedAreWellFormed ==
    ret.status = "ok" =>
        /\ ret.params.top_width > 0
        /\ ret.params.top_depth > 0
        /\ ret.params.top_thickness > 0
        /\ ret.params.table_height > 0
        /\ ret.params.leg_thickness > 0
        /\ ret.params.inset >= 0
        /\ ret.params.table_height > ret.params.top_thickness
        /\ Min(ret.params.top_width, ret.params.top_depth)
              > ret.params.leg_thickness
        /\ ret.params.inset <= MaxInsetOf(ret.params)

\* The world XY of the four returned legs, in order.
LegsWorldXY ==
    [i \in 1..4 |-> <<WorldLocation(objects, ret.legs[i])[1],
                      WorldLocation(objects, ret.legs[i])[2]>>]

CornersAt(d) == <<<<d, d>>, <<d, -d>>, <<-d, d>>, <<-d, -d>>>>

\* C10 as stated: Scenario A builds, with leg_height 0.67 and the legs at
\* world XY (+-0.42, +-0.42).
C10_ScenarioALegsAt042 ==
    (Called /\ ret.params = ScenarioA)
        => /\ ret.status = "ok"
           /\ ret.leg_height = Milli(670)
           /\ LegsWorldXY = CornersAt(Milli(420))

\* C10, amended: Scenario A builds, with leg_height 0.67 and the legs at
\* world XY (+-0.47, +-0.47): 0.6 - 0.08 - 0.05.
C10_ScenarioALegsAt047 ==
    (Called /\ ret.params = ScenarioA)
        => /\ ret.status = "ok"
           /\ ret.leg_height = Milli(670)
           /\ LegsWorldXY = CornersAt(Milli(470))

\* Scenario A, built.
C10_ScenarioABuilt ==
    /\ ret.status = "ok"
    /\ ret.params = ScenarioA
    /\ Len(ret.legs) = 4

\* The five checks on one leg, in the order of the loop body.
LegChecks ==
    <<"local XY mismatch", "local Z mismatch", "does not touch ground",
      "does not touch tabletop underside", "is not parented to TableTop">>

\* Every check validate_table makes on the legs it is given, in the order
\* of the code: leg count, tabletop, each leg in turn, position set, style.
ChecksInOrder(legs) ==
    <<Issue("Expected 4 legs", ""),
      Issue("TableTop local XY mismatch", ""),
      Issue("TableTop local Z mismatch", ""),
      Issue("TableTop z mismatch", "")>>
    \o [k \in 1..(5 * Len(legs)) |->
           Issue(LegChecks[((k - 1) % 5) + 1],
                 objects[legs[((k - 1) \div 5) + 1]].name)]
    \o <<Issue("Leg corner positions mismatch", ""),
         Issue("Readability ratio leg_thickness out of range", ""),
         Issue("Readability ratio inset out of range", ""),
         Issue("Non-boxy rule failed: leg_splay_deg", ""),
         Issue("Non-boxy rule failed: no taper/warp signal", "")>>

Differ(a, b, tol) == a - b > tol \/ b - a > tol

TopDims == mesh_dims_local(meshes[objects[val.table_top].data])

LegNamed(name) == CHOOSE l \in {val.legs[i] : i \in DOMAIN val.legs} :
                      objects[l].name = name

LegDims(name) == mesh_dims_local(meshes[objects[LegNamed(name)].data])

LegExtents(name) ==
    bbox_world_z_extents(Scene(objects, meshes, collections), LegNamed(name))

ReferenceSize(p) == Min(p.top_width, p.top_depth)

\* Whether the scene and the validator's arguments violate a check.
Violated(check) ==
    LET p == val.params
        c == check[1]
    IN  CASE c = "Expected 4 legs" -> Len(val.legs) # 4
          [] c = "TableTop local XY mismatch" ->
                \/ Differ(TopDims[1], p.top_width, eps)
                \/ Differ(TopDims[2], p.top_depth, eps)
          [] c = "TableTop local Z mismatch" ->
                Differ(TopDims[3],
                       p.top_thickness + WarpToLen(Max(0, p.top_warp)), eps)
          [] c = "TableTop z mismatch" ->
                Differ(objects[val.table_top].location[3],
                       p.table_height - Half(p.top_thickness), eps)
          [] c = "local XY mismatch" ->
                \/ Differ(LegDims(check[2])[1], p.leg_thickness, eps)
                \/ Differ(LegDims(check[2])[2], p.leg_thickness, eps)
          [] c = "local Z mismatch" ->
                Differ(LegDims(check[2])[3], val.leg_mesh_height, eps)
          [] c = "does not touch ground" ->
                Differ(LegExtents(check[2])[1], 0, z_touch_tolerance(p))
          [] c = "does not touch tabletop underside" ->
                Differ(LegExtents(check[2])[2],
                       p.table_height - p.top_thickness, z_touch_tolerance(p))
          [] c = "is not parented to TableTop" ->
                objects[LegNamed(check[2])].parent # val.table_top
          [] c = "Leg corner positions mismatch" ->
                ActualXY(Scene(objects, meshes, collections), val.legs)
                   # ExpectedXY(p)
          [] c = "Readability ratio leg_thickness out of range" ->
                \/ Div(p.leg_thickness, ReferenceSize(p)) < Milli(60)
                \/ Div(p.leg_thickness, ReferenceSize(p)) > Milli(160)
          [] c = "Readability ratio inset out of range" ->
                \/ Div(p.inset, ReferenceSize(p)) < Milli(40)
                \/ Div(p.inset, ReferenceSize(p)) > Milli(200)
          [] c = "Non-boxy rule failed: leg_splay_deg" ->
                p.leg_splay_deg < 3 * ONE
          [] c = "Non-boxy rule failed: no taper/warp signal" ->
                /\ p.top_taper > Milli(950)
                /\ p.leg_taper > Milli(900)
                /\ Abs(p.top_warp) <= 10

\* C9: validate_table does not stop at the first failure: the list it
\* returns has one issue for each violated check and no other, in the fixed
\* order of the checks; it is empty exactly when no check is violated.
C9_EveryViolatedCheckReported ==
    val.status = "done" =>
        val.issues = SelectSeq(ChecksInOrder(val.legs), Violated)

\* A validation that reports the missing leg first and goes on to report
\* a leg, the position set and a style rule.
C9_SeveralIssues ==
    /\ val.status = "done"
    /\ Len(val.issues) >= 4
    /\ val.issues[1] = Issue("Expected 4 legs", "")
    /\ \E i \in DOMAIN val.issues : val.issues[i][2] = "TableLeg.002"
    /\ val.issues[Len(val.issues)][1] \in
          {"Non-boxy rule failed: leg_splay_deg",
           "Non-boxy rule failed: no taper/warp signal"}

\* The validation main makes: the tabletop, the four legs, the parameters
\* and the leg_mesh_height of the build.
ValidatedAsBuilt ==
    /\ val.status = "done"
    /\ val.table_top = ret.table_top
    /\ val.legs = ret.legs
    /\ val.params = ret.params
    /\ val.leg_mesh_height = ret.leg_mesh_height

\* C11: for the assembly built from the Scenario A parameters, validate_table
\* called with the same parameters and the builder's leg_mesh_height returns
\* an empty list.
C11_ScenarioAPasses ==
    (ValidatedAsBuilt /\ ret.params = ScenarioA) => val.issues = <<>>

\* Scenario A built and validated as main does.
C11_ScenarioAValidated ==
    /\ ValidatedAsBuilt
    /\ ret.params = ScenarioA
    /\ ret.table_top \in InCollection

\* C12: for the assembly built from Scenario B (Scenario A without splay,
\* taper and warp), validate_table returns exactly two issues, the one on
\* leg_splay_deg and the one on the missing taper/warp signal.
C12_ScenarioBTwoStyleIssues ==
    (ValidatedAsBuilt /\ ret.params = ScenarioB)
        => /\ Len(val.issues) = 2
           /\ {val.issues[i] : i \in DOMAIN val.issues}
                 = {Issue("Non-boxy rule failed: leg_splay_deg", ""),
                    Issue("Non-boxy rule failed: no taper/warp signal", "")}

\* Scenario B built and validated as main does.
C12_ScenarioBValidated ==
    /\ ValidatedAsBuilt
    /\ ret.params = ScenarioB
    /\ Len(val.issues) = 2

\* The build had splay a and the validation has splay b, with a < b, both in
\* [0, 20], and every other parameter is the same.
SplayRaised ==
    /\ val.status = "done"
    /\ [val.params EXCEPT !.leg_splay_deg = ret.params.leg_splay_deg]
          = ret.params
    /\ ret.params.leg_splay_deg < val.params.leg_splay_deg
    /\ val.params.leg_splay_deg <= 20 * ONE

\* 1.2 * leg_thickness * sin(splay), the tolerance above its floor of 5e-3.
CornerAllowance(p) ==
    Mul(Mul(p.leg_thickness, sin(radians(p.leg_splay_deg))), Milli(1200))

\* C13 as stated: for splays a < b in [0, 20], everything else fixed, the
\* validator's z_touch_tolerance and the builder's leg_mesh_height are both
\* strictly larger for b than for a.
C13_StrictlyIncreasing ==
    SplayRaised =>
        /\ z_touch_tolerance(val.params) > z_touch_tolerance(ret.params)
        /\ LegMeshHeight(val.params) > ret.leg_mesh_height

\* C13, amended: for splays a < b in [0, 20], everything else fixed, neither
\* z_touch_tolerance nor leg_mesh_height is smaller for b than for a;
\* leg_mesh_height is strictly larger when b - a is at least 0.1 degree, and
\* z_touch_tolerance is strictly larger only when, besides,
\* 1.2 * leg_thickness * sin(b) is above the floor 5e-3: below it the
\* tolerance is 5e-3 for both.
C13_IncreasingAboveFloor ==
    SplayRaised =>
        /\ z_touch_tolerance(val.params) >= z_touch_tolerance(ret.params)
        /\ LegMeshHeight(val.params) >= ret.leg_mesh_height
        /\ val.params.leg_splay_deg - ret.params.leg_splay_deg >= ResolvedSplay
              => /\ LegMeshHeight(val.params) > ret.leg_mesh_height
                 /\ CornerAllowance(val.params) > Milli(5)
                       => z_touch_tolerance(val.params)
                             > z_touch_tolerance(ret.params)
                 /\ CornerAllowance(val.params) <= Milli(5)
                       => /\ z_touch_tolerance(val.params) = Milli(5)
                          /\ z_touch_tolerance(ret.params) = Milli(5)

\* A build without splay validated with 1 degree of splay: the tolerance is
\* at its floor for both, the leg mesh would be longer.
C13_FloorForBoth ==
    /\ SplayRaised
    /\ ret.params.leg_splay_deg = 0
    /\ val.params.leg_splay_deg = ONE
    /\ z_touch_tolerance(val.params) = z_touch_tolerance(ret.params)
    /\ LegMeshHeight(val.params) > ret.leg_mesh_height

Requested ==
    (IF run.args.report_json THEN {"report"} ELSE {})
       \cup (IF run.args.render THEN {"render"} ELSE {})
       \cup (IF run.args.export_glb THEN {"glb"} ELSE {})

\* C14: with --validate, the run ends with exit status 2 exactly when
\* validate_table returned a non-empty list, and otherwise prints
\* VALIDATION: PASS; whenever validation has run, the requested report,
\* render and GLB export have been made before it.
C14_ExitTwoIffIssues ==
    /\ (run.pc = "exited" /\ run.args.validate)
          => /\ run.exit = 2 <=> (val.status = "done" /\ val.issues # <<>>)
             /\ (val.status = "done" /\ val.issues = <<>>)
                   => /\ run.exit = 0
                      /\ run.printed = <<"VALIDATION: PASS">>
    /\ (run.pc # "idle" /\ val.status = "done") => run.written = Requested
    /\ (run.pc # "idle" /\ ~run.args.validate) => val.status = "none"

\* A run that wrote its report and then failed validation with status 2.
C14_ReportThenFail ==
    /\ run.pc = "exited"
    /\ run.exit = 2
    /\ run.args.report_json
    /\ "report" \in run.written
    /\ val.issues # <<>>

\* The positions at which an event stands in the run's log.
EventsAt(event) == {i \in DOMAIN cli.events : cli.events[i] = event}

\* C15: haemwend.main.main logs sandbox.cli.start before it calls launch,
\* and whatever launch does (True, False when disabled, or an exception)
\* the finished run has called shutdown once and then, as its last event,
\* logged sandbox.cli.exit once.
C15_StartThenShutdownThenExit ==
    /\ \A j \in EventsAt("launch") :
          \E i \in EventsAt("sandbox.cli.start") : i < j
    /\ cli.pc = "done" =>
          /\ Cardinality(EventsAt("launch")) = 1
          /\ Cardinality(EventsAt("shutdown")) = 1
          /\ EventsAt("sandbox.cli.exit") = {Len(cli.events)}
          /\ \A l \in EventsAt("launch"), s \in EventsAt("shutdown") :
                l < s /\ s < Len(cli.events)

\* A finished run whose launch raised what main does not catch.
C15_LaunchRaised ==
    /\ cli.pc = "done"
    /\ cli.raised = "RuntimeError"
    /\ cli.env.display = "error"

\* C16: when SandboxApp() raises a graphics-pipe error and a software
\* display can be configured, the construction is retried exactly once and
\* nothing is raised; with no software display nothing is raised either
\* (the error text is returned); any other error is raised after a single
\* construction.
C16_DisplayFallback ==
    cli.constructions > 0 =>
        /\ (cli.env.display = "no_pipe" /\ cli.env.software_display) =>
              /\ cli.constructions = 2
              /\ cli.runner.app
              /\ cli.raised = "none"
        /\ (cli.env.display = "no_pipe" /\ ~cli.env.software_display) =>
              ~cli.runner.app /\ cli.raised = "none"
        /\ cli.env.display = "error" =>
              cli.constructions = 1 /\ cli.raised = "RuntimeError"

\* Where the middle of leg i's floor end lies relative to the leg's origin,
\* in world X and Y: the rotated local point (0, 0, lowest local z).
FloorEndOffset(i) ==
    LET leg == objects[ret.legs[i]]
        low == SeqMin(Coord(meshes[leg.data], 3))
        axis == RotationColumnZ(leg.rotation_euler)
    IN  <<Mul(low, axis[1]), Mul(low, axis[2])>>

\* C17: in a build with leg_splay_deg > 0 and non-zero anchor offsets the
\* floor end of every leg is displaced away from the centerline in X and in
\* Y: its offset from the anchor has the sign of the anchor's x and of the
\* anchor's y.
C17_FloorEndOutwardOnBothAxes ==
    (/\ ret.status = "ok"
     /\ ret.params.leg_splay_deg > 0
     /\ \A i \in 1..4 : ExpectedLegPlace(ret.params, i)[1] # 0
                       /\ ExpectedLegPlace(ret.params, i)[2] # 0)
        => \A i \in 1..4 :
              /\ SignX(i) * FloorEndOffset(i)[1] > 0
              /\ SignY(i) * FloorEndOffset(i)[2] > 0

IssueSet == {val.issues[i] : i \in DOMAIN val.issues}

\* The local extents of the tabletop the last call built.
BuiltTopDims == mesh_dims_local(meshes[objects[ret.table_top].data])

\* C18: for every accepted parameter set, whatever the sign of top_warp, the
\* built tabletop measures (top_width, top_depth) in local XY and
\* top_thickness + max(0, top_warp) in local Z, within 1e-3, and
\* validate_table called on the build reports neither tabletop mismatch.
C18_TopExtentsAsExpected ==
    /\ ret.status = "ok" =>
          /\ ~Differ(BuiltTopDims[1], ret.params.top_width, eps)
          /\ ~Differ(BuiltTopDims[2], ret.params.top_depth, eps)
          /\ ~Differ(BuiltTopDims[3],
                     ret.params.top_thickness
                        + WarpToLen(Max(0, ret.params.top_warp)), eps)
    /\ ValidatedAsBuilt =>
          /\ Issue("TableTop local XY mismatch", "") \notin IssueSet
          /\ Issue("TableTop local Z mismatch", "") \notin IssueSet

\* The world-space lowest and highest z of leg i of the last build.
BuiltLegExtents(i) ==
    bbox_world_z_extents(Scene(objects, meshes, collections), ret.legs[i])

\* C19: for every accepted parameter set each built leg's world bounding box
\* starts within z_touch_tolerance of 0 and ends within it of
\* table_height - top_thickness, and validate_table called on the build
\* reports no ground-contact and no underside-contact issue.
C19_BuiltLegsTouch ==
    /\ ret.status = "ok" =>
          \A i \in 1..4 :
              /\ ~Differ(BuiltLegExtents(i)[1], 0,
                         z_touch_tolerance(ret.params))
              /\ ~Differ(BuiltLegExtents(i)[2], LegHeight(ret.params),
                         z_touch_tolerance(ret.params))
    /\ ValidatedAsBuilt =>
          \A i \in 1..4 :
              /\ Issue("does not touch ground", LegName(i)) \notin IssueSet
              /\ Issue("does not touch tabletop underside", LegName(i))
                    \notin IssueSet

\* The local Z extent of the k-th leg validate_table was given.
ValidatedLegHeight(k) == mesh_dims_local(meshes[objects[val.legs[k]].data])[3]

LocalZReported(k) ==
    Issue("local Z mismatch", objects[val.legs[k]].name) \in IssueSet

UnitZMin == SeqMin(Coord(unit.verts, 3))

UnitZMax == SeqMax(Coord(unit.verts, 3))

\* Vertex i of the mesh before the call, scaled by s in x and y.
ScaledBy(i, s) ==
    <<Mul(unit.verts[i][1], s), Mul(unit.verts[i][2], s), unit.verts[i][3]>>

\* C21: _taper_mesh_z keeps every z; on a mesh of positive height it scales
\* the x and y of the lowest vertices by bottom_scale, of the highest by
\* top_scale and of the vertices at half height by the mean of the two;
\* with both scales 1.0 no vertex changes.
C21_TaperScalesTheEnds ==
    unit.fn = "_taper_mesh_z" =>
        /\ DOMAIN unit.result = DOMAIN unit.verts
        /\ \A i \in DOMAIN unit.verts :
              /\ unit.result[i][3] = unit.verts[i][3]
              /\ (UnitZMax > UnitZMin /\ unit.verts[i][3] = UnitZMin)
                    => unit.result[i] = ScaledBy(i, unit.bottom_scale)
              /\ (UnitZMax > UnitZMin /\ unit.verts[i][3] = UnitZMax)
                    => unit.result[i] = ScaledBy(i, unit.top_scale)
              /\ (UnitZMax - UnitZMin > 1
                     /\ 2 * unit.verts[i][3] = UnitZMin + UnitZMax)
                    => unit.result[i]
                         = ScaledBy(i, Half(unit.bottom_scale + unit.top_scale))
        /\ (unit.bottom_scale = ONE /\ unit.top_scale = ONE)
              => unit.result = unit.verts

\* A tabletop tapered as the builder does it, with a loop at half height.
C21_TaperedWithLoop ==
    /\ unit.fn = "_taper_mesh_z"
    /\ Len(unit.verts) > 8
    /\ unit.bottom_scale = Milli(900)
    /\ unit.top_scale = ONE
    /\ unit.result # unit.verts

\* x * y >= 0, from the signs.
ProductNonNegative(x, y) == x = 0 \/ y = 0 \/ (x < 0) = (y < 0)

\* C22: _warp_top_surface returns the mesh as it is when |strength| <= 1e-9;
\* otherwise it adds +strength to the z of the vertices within 1e-6 of the
\* highest z where x*y >= 0 and -strength where x*y < 0, and changes no x,
\* no y and no vertex further than 1e-6 below the top.
C22_WarpMovesOnlyTheTop ==
    unit.fn = "_warp_top_surface" =>
        /\ DOMAIN unit.result = DOMAIN unit.verts
        /\ Abs(unit.strength) <= 10 => unit.result = unit.verts
        /\ \A i \in DOMAIN unit.verts :
              /\ unit.result[i][1] = unit.verts[i][1]
              /\ unit.result[i][2] = unit.verts[i][2]
              /\ UnitZMax - unit.verts[i][3] > 1
                    => unit.result[i] = unit.verts[i]
              /\ (Abs(unit.strength) > 10 /\ UnitZMax - unit.verts[i][3] <= 1)
                    => unit.result[i][3] - unit.verts[i][3]
                         = (IF ProductNonNegative(unit.verts[i][1],
                                                  unit.verts[i][2])
                            THEN 1 ELSE -1) * WarpToLen(unit.strength)

\* A warped box with top vertices on the axes and a bottom face.
C22_WarpedWithLoop ==
    /\ unit.fn = "_warp_top_surface"
    /\ Len(unit.verts) > 8
    /\ unit.strength = -80 * ONE
    /\ \E i \in DOMAIN unit.verts :
          /\ unit.verts[i][1] = 0
          /\ unit.result[i][3] = unit.verts[i][3] - Milli(8)

\* The template leg of a build: the unit cube scaled to its dimensions and
\* tapered towards the top.
TemplateVerts(p) ==
    taper_verts(ApplyScaleVerts(CubeVerts(ONE),
                                <<p.leg_thickness, p.leg_thickness,
                                  LegMeshHeight(p)>>),
                ONE, p.leg_taper)

\* C23: after a build the four legs point at four different datablocks,
\* none of them the removed template's, each holding the template's
\* vertices; and moving a vertex of one leg changes that leg's vertices and
\* those of no other leg.
C23_LegsOwnTheirVertices ==
    /\ (ret.status = "ok" /\ unit.fn = "none") =>
          /\ TemplateId(calls) \notin DOMAIN objects
          /\ \A i \in 1..4 :
                /\ objects[ret.legs[i]].data # TemplateId(calls)
                /\ LegMeshes[i] = TemplateVerts(ret.params)
                /\ \A j \in 1..4 :
                      i # j => objects[ret.legs[i]].data
                                  # objects[ret.legs[j]].data
    /\ unit.fn = "edit" =>
          /\ LegMeshes[unit.leg] # unit.before[unit.leg]
          /\ \A j \in 1..4 :
                j # unit.leg => LegMeshes[j] = unit.before[j]

\* A vertex of the third leg of a splayed build moved.
C23_ThirdLegEdited ==
    /\ unit.fn = "edit"
    /\ unit.leg = 3
    /\ ret.params = ScenarioA
    /\ LegMeshes[3] # LegMeshes[1]

\* What the call that made this step logged and called.
EventsOfCall == SubSeq(cli'.events, Len(cli.events) + 2, Len(cli'.events))

\* Whether event a stands before event b among the events of the call.
InOrder(a, b) ==
    \E i, j \in DOMAIN EventsOfCall :
        i < j /\ EventsOfCall[i] = a /\ EventsOfCall[j] = b

\* C24: a launch on a running runner returns True, constructs nothing and
\* leaves the runner as it is; with a disabled configuration it returns
\* False, constructs nothing and leaves the runner as it is; otherwise,
\* where a window can be opened and the session ends normally, it creates
\* the application, binds camera and UI, sets running before it starts the
\* main loop and returns True.
C24_LaunchGuards ==
    [][(cli.pc = "runner" /\ cli'.calls = cli.calls + 1
                          /\ cli'.last = "launch") =>
         /\ cli.runner.running =>
               /\ cli'.started /\ cli'.raised = "none"
               /\ cli'.constructions = cli.constructions
               /\ cli'.runner = cli.runner
         /\ (~cli.runner.running /\ ~cli.env.enabled) =>
               /\ ~cli'.started /\ cli'.raised = "none"
               /\ cli'.constructions = cli.constructions
               /\ cli'.runner = cli.runner
         /\ (~cli.runner.running /\ cli.env.enabled
                /\ cli.env.display = "ok" /\ cli.env.session = "returns") =>
               /\ cli'.constructions = cli.constructions + 1
               /\ InOrder("SandboxApp", "camera.bind")
               /\ InOrder("SandboxApp", "ui.bind")
               /\ InOrder("running", "app.start")
               /\ cli'.started /\ cli'.raised = "none"]_vars

\* C29: between the calls made on a runner, whether the last one was a
\* launch that returned or raised or a shutdown, the runner holds nothing:
\* not running, no application, no camera, no UI, no bindings, no tasks.
C29_NoResourcesHeld ==
    cli.pc = "runner" => cli.runner = NewRunner

\* The scenarios of the base file whose median is not positive.
InvalidBase == {n \in DOMAIN unit.in.base : unit.in.base[n] <= 0}

\* head exceeds base by strictly more than pct percent of base (base > 0).
Regressed(n) ==
    ((unit.in.head[n] - unit.in.base[n]) \div ONE) * 100
        > (unit.in.max_regression_pct \div ONE) * (unit.in.base[n] \div ONE)

\* C25: the script returns 2 when the two files name different scenarios;
\* otherwise 3, at the first scenario in sorted order whose base median is
\* <= 0, if there is one; otherwise 1 if the head median of some scenario
\* exceeds its base median by strictly more than max-regression-pct
\* percent, and 0 if none does.
C25_ExitStatus ==
    unit.fn = "compare_perf_results.main" =>
        IF DOMAIN unit.in.base # DOMAIN unit.in.head
        THEN unit.result.status = 2
        ELSE IF InvalidBase # {}
        THEN /\ unit.result.status = 3
             /\ unit.result.rows
                   = Cardinality({n \in DOMAIN unit.in.base :
                                     \A m \in InvalidBase : n <= m})
        ELSE unit.result.status
               = IF \E n \in DOMAIN unit.in.base : Regressed(n)
                 THEN 1 ELSE 0

\* Two scenarios, one of them exactly at the threshold of 10 percent and
\* the other below it: the gate passes.
C25_AtThresholdPasses ==
    /\ unit.fn = "compare_perf_results.main"
    /\ unit.in.max_regression_pct = 10 * ONE
    /\ unit.in.base = (1 :> 100 * ONE) @@ (2 :> 100 * ONE)
    /\ unit.in.head = (1 :> 110 * ONE) @@ (2 :> 100 * ONE)
    /\ unit.result.status = 0

\* x < 0.0
Negative(x) == x.neg /\ x.mag # ZeroLimbs

\* C26: for every accepted parameter set both planar offsets are >= 0 and
\* the footprint of a leg before the splay lies inside the top's footprint
\* on both axes: offset + leg_thickness / 2 <= half the top dimension.
C26_OffsetsInsideTheTop ==
    (unit.fn = "create_low_poly_table.offsets" /\ unit.result.error = "") =>
        /\ ~Negative(unit.result.offset_x)
        /\ ~Negative(unit.result.offset_y)
        /\ unit.result.inside_x
        /\ unit.result.inside_y

\* The world XY positions of the given legs.
AnchorsOf(legs) ==
    {<<WorldLocation(objects, legs[i])[1], WorldLocation(objects, legs[i])[2]>> :
        i \in DOMAIN legs}

\* C27: for every accepted parameter set the four leg anchors are four
\* pairwise distinct XY positions, and the leg-position check of
\* validate_table passes only when the four legs are at four distinct
\* positions.
C27_FourDistinctAnchors ==
    /\ ret.status = "ok" => Cardinality(AnchorsOf(ret.legs)) = 4
    /\ (val.status = "done"
          /\ Issue("Leg corner positions mismatch", "") \notin IssueSet)
          => Cardinality(AnchorsOf(val.legs)) = 4

\* The returned feature count holds a feature besides splay and the tapers.
WarpCounted ==
    ret.style_metrics.non_boxy_feature_count
        - (IF ret.params.leg_splay_deg >= 3 * ONE THEN 1 ELSE 0)
        - (IF ret.params.top_taper <= Milli(950) THEN 1 ELSE 0)
        - (IF ret.params.leg_taper <= Milli(900) THEN 1 ELSE 0) = 1

\* The top face of the built tabletop is not flat any more.
WarpDisplaced == BuiltTopDims[3] # ret.params.top_thickness

SignalIssue == Issue("Non-boxy rule failed: no taper/warp signal", "")

\* C28: the style metrics, the builder and the validator agree on whether
\* the warp is present. For every accepted parameter set top_warp is counted
\* as a non-boxy feature exactly when the top face of the build is displaced
\* and exactly when validate_table does not take top_warp for zero; so when
\* validate_table reports the missing taper/warp signal the feature count is
\* at most 1.
C28_WarpAgreed ==
    /\ ret.status = "ok" => (WarpCounted <=> WarpDisplaced)
    /\ (/\ ValidatedAsBuilt
         /\ ret.params.top_taper > Milli(950)
         /\ ret.params.leg_taper > Milli(900))
          => (WarpCounted <=> SignalIssue \notin IssueSet)
    /\ (ValidatedAsBuilt /\ SignalIssue \in IssueSet)
          => ret.style_metrics.non_boxy_feature_count <= 1

\* The file is missing, or its payload has no key at all.
NothingConfigured ==
    /\ unit.in.enabled = {}
    /\ unit.in.move_speed = {}
    /\ unit.in.mouse_sensitivity = {}
    /\ unit.in.boundary_radius = {}
    /\ unit.in.primitives = {}

\* C30: when the configuration file does not exist, and when its payload is
\* empty, the configuration loaded equals default_sandbox_config(), the
\* override summary is empty and the overrides log reports
\* using_defaults = True.
C30_MissingFileIsDefault ==
    (unit.fn = "reload_config" /\ NothingConfigured) =>
        /\ unit.raised = ""
        /\ unit.config = default_sandbox_config
        /\ DOMAIN unit.overrides = {}
        /\ unit.logged /\ unit.using_defaults

====
